---- MODULE Spec2Model ----
(***************************************************************************)
(* A state-machine model of vsg::TransferTask (src/vsg/app/TransferTask.cpp): *)
(* the frame ring, the ledger of BufferInfo / ImageInfo entries waiting to  *)
(* be copied, and the per-frame transfer cycle.                             *)
(***************************************************************************)
EXTENDS Integers, Sequences, FiniteSets, TLC

\* ------------------------------------------------------------------ bounds

\* The TransferTask is constructed with numBuffers in 1..MaxNumBuffers.
MaxNumBuffers == 2

\* advance() is called at most numBuffers + ExtraFrames times in one
\* behaviour: every frame slot is used and the ring wraps around.
ExtraFrames == 1

\* The threads that call into one TransferTask concurrently.
NumThreads == 2

\* How many pushTransform() calls are outstanding at most.
MaxTransformDepth == 2

\* ------------------------------------------------------- program constants

\* VkDeviceSize alignment = 4;
alignment == 4

\* TransferTask::minimumStagingBufferSize, a public member the application
\* sets; scaled down so that both the clamped and the unclamped allocation
\* happen with the objects below.
minimumStagingBufferSize == 8

VK_SUCCESS == "VK_SUCCESS"
VK_ERROR_MEMORY_MAP_FAILED == "VK_ERROR_MEMORY_MAP_FAILED"
VK_ERROR_DEVICE_LOST == "VK_ERROR_DEVICE_LOST"
VK_ERROR_OUT_OF_DEVICE_MEMORY == "VK_ERROR_OUT_OF_DEVICE_MEMORY"

STATIC_DATA == "STATIC_DATA"
DYNAMIC_DATA == "DYNAMIC_DATA"

\* ---------------------------------------------------- the objects in play

\* The BufferInfo objects the application owns.  buffer = 0 is a BufferInfo
\* with no backing buffer.  Objects 1 and 4 share the key (buffer, offset).
BufferInfoIds == {1, 2, 3, 4, 5}

BufferInfoTable ==
    [i \in BufferInfoIds |->
        CASE i = 1 -> [buffer |-> 1, offset |-> 0, range |-> 3, dataVariance |-> STATIC_DATA]
          [] i = 2 -> [buffer |-> 1, offset |-> 8, range |-> 6, dataVariance |-> DYNAMIC_DATA]
          [] i = 3 -> [buffer |-> 2, offset |-> 0, range |-> 4, dataVariance |-> STATIC_DATA]
          [] i = 4 -> [buffer |-> 1, offset |-> 0, range |-> 5, dataVariance |-> DYNAMIC_DATA]
          [] OTHER -> [buffer |-> 0, offset |-> 0, range |-> 4, dataVariance |-> STATIC_DATA]]

\* Pixel formats and the per-texel size getFormatTraits reports for them.
FormatSize(format) ==
    CASE format = "R8" -> 1
      [] format = "RGB8" -> 3
      [] format = "RGBA8" -> 4
      [] format = "BGRA8" -> 4

\* The ImageInfo objects the application owns: the data's format and
\* valueCount, the image view's format, and whether the
\* imageView -> image -> data chain is complete.
ImageInfoIds == {1, 2, 3, 4, 5, 6}

ImageInfoTable ==
    [j \in ImageInfoIds |->
        CASE j = 1 -> [sourceFormat |-> "R8", targetFormat |-> "R8", valueCount |-> 3,
                       dataVariance |-> STATIC_DATA, hasData |-> TRUE]
          [] j = 2 -> [sourceFormat |-> "RGB8", targetFormat |-> "RGBA8", valueCount |-> 1,
                       dataVariance |-> DYNAMIC_DATA, hasData |-> TRUE]
          [] j = 3 -> [sourceFormat |-> "RGBA8", targetFormat |-> "RGBA8", valueCount |-> 1,
                       dataVariance |-> STATIC_DATA, hasData |-> FALSE]
          [] j = 4 -> [sourceFormat |-> "RGBA8", targetFormat |-> "RGB8", valueCount |-> 4,
                       dataVariance |-> STATIC_DATA, hasData |-> TRUE]
          [] j = 6 -> [sourceFormat |-> "R8", targetFormat |-> "RGBA8", valueCount |-> 2,
                       dataVariance |-> STATIC_DATA, hasData |-> TRUE]
          [] OTHER -> [sourceFormat |-> "BGRA8", targetFormat |-> "RGBA8", valueCount |-> 1,
                       dataVariance |-> DYNAMIC_DATA, hasData |-> TRUE]]

\* What the application owns in one behaviour: with any number of frame
\* slots two BufferInfos of one buffer; with a single slot also BufferInfos
\* of two buffers, a BufferInfo and an image, two images, colliding keys with
\* an object that has no buffer or no data, and images whose formats differ.
Applications(n) ==
    {[bufferInfos |-> {1, 2}, imageInfos |-> {}]}
        \cup (IF n = 1
              THEN {[bufferInfos |-> {2, 3}, imageInfos |-> {}],
                    [bufferInfos |-> {2}, imageInfos |-> {1}],
                    [bufferInfos |-> {}, imageInfos |-> {1, 2}],
                    [bufferInfos |-> {1, 4, 5}, imageInfos |-> {3}],
                    [bufferInfos |-> {}, imageInfos |-> {4, 5}]}
              ELSE {})

\* Semaphores: none, the completion semaphore a frame slot creates, one the
\* application puts in waitSemaphores, or whatever a stray pointer reads.
NoSemaphore == [kind |-> "none", slot |-> 0]
SemaphoreOf(frameIndex) == [kind |-> "transferComplete", slot |-> frameIndex]
GarbageSemaphore == [kind |-> "garbage", slot |-> 0]
WaitSemaphoreIds == {[kind |-> "renderFinished", slot |-> 0]}

Threads == 1..NumThreads

\* ----------------------------------------------------------------- state

VARIABLES
    numBuffers,                         \* the constructor's argument
    application,                        \* the BufferInfos and ImageInfos the application owns
    _currentTransferBlockIndex,
    _indices,                           \* [0..numBuffers-1 -> 0..numBuffers]
    _frames,                            \* [0..numBuffers-1 -> TransferBlock]
    dataMap,                            \* _earlyDataToCopy.dataMap: buffer -> (offset -> BufferInfo)
    imageInfoSet,                       \* _earlyDataToCopy.imageInfoSet
    bufModified,                        \* BufferInfo: data's modified count differs from the copied count
    bufRefs,                            \* BufferInfo: references held outside the ledger
    imgModified,
    imgRefs,
    waitSemaphores,
    currentTransferCompletedSemaphore,
    halted,                             \* the process has crashed
    last,                               \* what transferData() did, if it was the last operation
    advanceCalls,                       \* number of advance() calls so far
    indexHistory,                       \* index(0) after each advance(), most recent first
    pc,                                 \* per thread: "idle", or the operation whose lock it holds
    _mutex,                             \* the threads that own _mutex: none or one
    assigned,                           \* the last assign(buffers) call: its list, the ledger before it
    image,                              \* an image handed to _transferImageInfo on its own
    staged,                             \* what _transferImageInfo wrote to staging for it
    _polytopeStack,                     \* PolytopeIntersector: base polytope, then one per pushTransform
    localToWorldStack,                  \* the array state's local-to-world matrices
    worldToLocalStack,                  \* the array state's world-to-local matrices
    intersections,                      \* the intersections recorded so far
    lastIntersector,                    \* what the last intersector call did
    camera                              \* the camera and sub-rectangle an intersector is built from

vars == <<numBuffers, application, _currentTransferBlockIndex, _indices, _frames, dataMap, imageInfoSet,
          bufModified, bufRefs, imgModified, imgRefs, waitSemaphores,
          currentTransferCompletedSemaphore, halted, last, advanceCalls, indexHistory,
          pc, _mutex, assigned, image, staged,
          _polytopeStack, localToWorldStack, worldToLocalStack, intersections, lastIntersector,
          camera>>

threadVars == <<pc, _mutex>>
historyVars == <<assigned>>
stagingVars == <<image, staged>>
stackVars == <<_polytopeStack, localToWorldStack, worldToLocalStack>>
intersectorVars == <<stackVars, intersections, lastIntersector, camera>>

ringVars == <<_currentTransferBlockIndex, _indices, advanceCalls, indexHistory>>
ledgerVars == <<dataMap, imageInfoSet, bufModified, bufRefs, imgModified, imgRefs>>
submitVars == <<waitSemaphores, currentTransferCompletedSemaphore>>

taskVars == <<numBuffers, application, _frames, ringVars, ledgerVars, submitVars, halted, last>>

\* What each specification leaves alone.
untouchedBySpec == <<threadVars, historyVars, stagingVars, intersectorVars>>
untouchedByThreads == <<historyVars, stagingVars, intersectorVars>>
untouchedByAssign == <<threadVars, stagingVars, intersectorVars>>
untouchedByImage == <<taskVars, threadVars, historyVars, intersectorVars>>
untouchedByIntersector ==
    <<numBuffers, application, _frames, ringVars, ledgerVars, submitVars, last,
      threadVars, historyVars, stagingVars, camera>>
untouchedByCamera ==
    <<taskVars, threadVars, historyVars, stagingVars, localToWorldStack, worldToLocalStack,
      intersections, camera>>

\* ---------------------------------------------------------------- helpers

RECURSIVE SortedSeq(_)
SortedSeq(S) ==
    IF S = {} THEN <<>>
    ELSE LET m == CHOOSE x \in S : \A y \in S : x <= y
         IN <<m>> \o SortedSeq(S \ {m})

\* offset = (endOfEntry % alignment) == 0 ? endOfEntry : ((endOfEntry / alignment) + 1) * alignment
AlignUp(endOfEntry) ==
    IF endOfEntry % alignment = 0 THEN endOfEntry
    ELSE ((endOfEntry \div alignment) + 1) * alignment

\* TransferBlock::create(): nothing allocated yet.
EmptyTransferBlock ==
    [staging |-> 0, buffer_data |-> "null", transferCommandBuffer |-> FALSE,
     transferCompleteSemaphore |-> NoSemaphore]

\* No transferData() call has returned since the last other operation.
NoCall == [ret |-> "none"]

\* No image is being looked at on its own.
NoImage == [imageInfo |-> 0, defaultValue |-> << >>, offset |-> 0]
NothingStaged == [done |-> FALSE, bytes |-> << >>]

\* No intersector call has been made: no pushTransform() is outstanding, no
\* popTransform() has been called without one, and no polytope pushed by a
\* pushTransform() is waiting for its popTransform(), nor are the stacks such
\* a pushTransform() found.
NoIntersectorCall ==
    [op |-> "none", outstanding |-> 0, stray |-> FALSE, unmatched |-> << >>, snapshots |-> << >>]

\* The intersector is not built from a camera.
NoCamera == [given |-> FALSE]

\* No assign(buffers) call has been made.
NoAssign == [bufferInfoList |-> << >>, before |-> << >>]

\* ------------------------------------------------------------------- ring

\* size_t TransferTask::index(size_t relativeTransferBlockIndex) const
index(relativeTransferBlockIndex) ==
    IF relativeTransferBlockIndex < numBuffers
    THEN _indices[relativeTransferBlockIndex]
    ELSE numBuffers

\* for (size_t i = _indices.size() - 1; i >= 1; --i) _indices[i] = _indices[i - 1];
ShiftIndicesSkipped(ind) == ind

ShiftIndices(ind) ==
    [i \in DOMAIN ind |-> IF i >= 1 THEN ind[i - 1] ELSE ind[i]]

\* _indices.emplace_back(numBuffers); // numBuffers is used to signify unset value
UnsetIndexZero(n) == 0

UnsetIndex(n) == n

\* TransferTask::TransferTask(Device*, uint32_t numBuffers)
Constructed ==
    /\ _currentTransferBlockIndex = UnsetIndex(numBuffers)
    /\ _indices = [i \in 0..(numBuffers - 1) |-> UnsetIndex(numBuffers)]
    /\ _frames = [i \in 0..(numBuffers - 1) |-> EmptyTransferBlock]
    /\ dataMap = << >>
    /\ imageInfoSet = {}
    /\ bufModified = [i \in BufferInfoIds |-> FALSE]
    /\ bufRefs = [i \in BufferInfoIds |-> 1]
    /\ imgModified = [j \in ImageInfoIds |-> FALSE]
    /\ imgRefs = [j \in ImageInfoIds |-> 1]
    /\ waitSemaphores = << >>
    /\ currentTransferCompletedSemaphore = NoSemaphore
    /\ halted = FALSE
    /\ last = NoCall
    /\ advanceCalls = 0
    /\ indexHistory = << >>
    /\ pc = [t \in Threads |-> "idle"]
    /\ _mutex = {}
    /\ assigned = NoAssign

\* No image is looked at on its own, and there is no intersector.
ImageAside ==
    /\ image = NoImage
    /\ staged = NothingStaged

IntersectorAside ==
    /\ _polytopeStack = << >>
    /\ localToWorldStack = << >>
    /\ worldToLocalStack = << >>
    /\ intersections = << >>
    /\ lastIntersector = NoIntersectorCall
    /\ camera = NoCamera

Init ==
    /\ numBuffers \in 1..MaxNumBuffers
    /\ application \in Applications(numBuffers)
    /\ Constructed
    /\ ImageAside
    /\ IntersectorAside

\* void TransferTask::advance()
advance ==
    /\ ~halted
    /\ advanceCalls < numBuffers + ExtraFrames
    /\ LET current ==
               IF _currentTransferBlockIndex >= numBuffers THEN 0
               ELSE IF _currentTransferBlockIndex + 1 > numBuffers - 1 THEN 0
               ELSE _currentTransferBlockIndex + 1
           shifted ==
               IF _currentTransferBlockIndex >= numBuffers THEN _indices
               ELSE ShiftIndices(_indices)
       IN /\ _currentTransferBlockIndex' = current
          /\ _indices' = [shifted EXCEPT ![0] = current]
    /\ advanceCalls' = advanceCalls + 1
    \* index(0) as it is after this call, put in front
    /\ indexHistory' = SubSeq(<<_indices'[0]>> \o indexHistory, 1,
                              IF Len(indexHistory) + 1 < numBuffers
                              THEN Len(indexHistory) + 1 ELSE numBuffers)
    /\ last' = NoCall
    /\ UNCHANGED <<numBuffers, application, _frames, ledgerVars, submitVars, halted>>

\* ----------------------------------------------------------------- ledger

\* The BufferInfo objects the ledger holds.
LedgerBufferInfos(dm) == UNION {{dm[b][o] : o \in DOMAIN dm[b]} : b \in DOMAIN dm}

\* bufferInfo->referenceCount(): the ledger's reference and those held outside it.
BufferInfoReferenceCount(i) == 1 + bufRefs[i]
ImageInfoReferenceCount(j) == 1 + imgRefs[j]

\* if (bufferInfo->buffer) _earlyDataToCopy.dataMap[bufferInfo->buffer][bufferInfo->offset] = bufferInfo;
InsertKeepingFirst(dm, i) ==
    LET b == BufferInfoTable[i].buffer
        o == BufferInfoTable[i].offset
        inner == IF b \in DOMAIN dm THEN dm[b] ELSE << >>
        newInner == [x \in DOMAIN inner \cup {o} |-> IF x \in DOMAIN inner THEN inner[x] ELSE i]
    IN IF b # 0
       THEN [y \in DOMAIN dm \cup {b} |-> IF y = b THEN newInner ELSE dm[y]]
       ELSE dm

InsertBufferInfo(dm, i) ==
    LET b == BufferInfoTable[i].buffer
        o == BufferInfoTable[i].offset
        inner == IF b \in DOMAIN dm THEN dm[b] ELSE << >>
        newInner == [x \in DOMAIN inner \cup {o} |-> IF x = o THEN i ELSE inner[x]]
    IN IF b # 0
       THEN [y \in DOMAIN dm \cup {b} |-> IF y = b THEN newInner ELSE dm[y]]
       ELSE dm

\* for (auto& bufferInfo : bufferInfoList) ...
RECURSIVE InsertBufferInfos(_, _)
InsertBufferInfos(dm, bufferInfoList) ==
    IF bufferInfoList = << >> THEN dm
    ELSE InsertBufferInfos(InsertBufferInfo(dm, Head(bufferInfoList)), Tail(bufferInfoList))

\* The lists assign() is called with: none, one or two distinct objects of the
\* application's.
ListsOf(S) ==
    {<< >>} \cup {<<x>> : x \in S} \cup UNION {{<<x, y>> : y \in S \ {x}} : x \in S}

SeqRange(s) == {s[n] : n \in 1..Len(s)}

\* An object the ledger has let go of is forgotten: if the application still
\* holds it and assigns it again, it comes back with its data clean until
\* the application modifies it.
ForgetBufferInfos(f, dm, clean) == [i \in BufferInfoIds |-> IF i \in LedgerBufferInfos(dm) THEN f[i] ELSE clean]
ForgetImageInfos(f, set, clean) == [j \in ImageInfoIds |-> IF j \in set THEN f[j] ELSE clean]

\* void TransferTask::assign(const BufferInfoList& bufferInfoList)
assignBufferInfos(bufferInfoList) ==
    /\ ~halted
    /\ \A i \in SeqRange(bufferInfoList) : bufRefs[i] >= 1
    /\ dataMap' = InsertBufferInfos(dataMap, bufferInfoList)
    /\ bufModified' = ForgetBufferInfos(bufModified, dataMap', FALSE)
    /\ bufRefs' = ForgetBufferInfos(bufRefs, dataMap', 1)
    /\ last' = NoCall
    /\ UNCHANGED <<numBuffers, application, _frames, ringVars, imageInfoSet, imgModified, imgRefs,
                   submitVars, halted>>

assignBufferInfoList ==
    \E bufferInfoList \in ListsOf(application.bufferInfos) : assignBufferInfos(bufferInfoList)

\* if (imageInfo->imageView && imageInfo->imageView && imageInfo->imageView->image->data)
\*     _earlyDataToCopy.imageInfoSet.insert(imageInfo);
InsertImageInfos(set, imageInfoList) ==
    set \cup {j \in SeqRange(imageInfoList) : ImageInfoTable[j].hasData}

\* void TransferTask::assign(const ImageInfoList& imageInfoList)
assignImageInfos(imageInfoList) ==
    /\ ~halted
    /\ \A j \in SeqRange(imageInfoList) : imgRefs[j] >= 1
    /\ imageInfoSet' = InsertImageInfos(imageInfoSet, imageInfoList)
    /\ last' = NoCall
    /\ UNCHANGED <<numBuffers, application, _frames, ringVars, dataMap, bufModified, bufRefs,
                   imgModified, imgRefs, submitVars, halted>>

assignImageInfoList ==
    \E imageInfoList \in ListsOf(application.imageInfos) : assignImageInfos(imageInfoList)

\* DataToCopy::containsDataToTransfer(); nothing assigns to _lateDataToCopy,
\* which stays empty.
DataToCopyContainsDataToTransfer(dm, set) == dm # << >> \/ set # {}

\* bool TransferTask::containsDataToTransfer() const
containsDataToTransfer ==
    /\ ~halted
    /\ DataToCopyContainsDataToTransfer(dataMap, imageInfoSet) \in BOOLEAN
    /\ last' = NoCall
    /\ UNCHANGED <<numBuffers, application, _frames, ringVars, ledgerVars, submitVars, halted>>

\* ------------------------------------------------------------ application

\* The application modifies the data of an entry (Data::dirty()).
dirtyBufferData ==
    /\ ~halted
    /\ \E i \in LedgerBufferInfos(dataMap) :
          /\ ~bufModified[i]
          /\ bufModified' = [bufModified EXCEPT ![i] = TRUE]
    /\ last' = NoCall
    /\ UNCHANGED <<numBuffers, application, _frames, ringVars, dataMap, imageInfoSet, bufRefs,
                   imgModified, imgRefs, submitVars, halted>>

dirtyImageData ==
    /\ ~halted
    /\ \E j \in imageInfoSet :
          /\ ~imgModified[j]
          /\ imgModified' = [imgModified EXCEPT ![j] = TRUE]
    /\ last' = NoCall
    /\ UNCHANGED <<numBuffers, application, _frames, ringVars, dataMap, imageInfoSet, bufModified,
                   bufRefs, imgRefs, submitVars, halted>>

\* The application drops its last reference to an entry: only the ledger holds it.
releaseBufferInfo ==
    /\ ~halted
    /\ \E i \in LedgerBufferInfos(dataMap) :
          /\ bufRefs[i] = 1
          /\ bufRefs' = [bufRefs EXCEPT ![i] = 0]
    /\ last' = NoCall
    /\ UNCHANGED <<numBuffers, application, _frames, ringVars, dataMap, imageInfoSet, bufModified,
                   imgModified, imgRefs, submitVars, halted>>

releaseImageInfo ==
    /\ ~halted
    /\ \E j \in imageInfoSet :
          /\ imgRefs[j] = 1
          /\ imgRefs' = [imgRefs EXCEPT ![j] = 0]
    /\ last' = NoCall
    /\ UNCHANGED <<numBuffers, application, _frames, ringVars, dataMap, imageInfoSet, bufModified,
                   bufRefs, imgModified, submitVars, halted>>

\* The application (the render task) adds a semaphore the next submit waits on.
addWaitSemaphore ==
    /\ ~halted
    /\ \E w \in WaitSemaphoreIds :
          /\ w \notin SeqRange(waitSemaphores)
          /\ waitSemaphores' = Append(waitSemaphores, w)
    /\ last' = NoCall
    /\ UNCHANGED <<numBuffers, application, _frames, ringVars, ledgerVars,
                   currentTransferCompletedSemaphore, halted>>

\* ----------------------------------------------------------- transferData

RECURSIVE ConcatAll(_)
ConcatAll(ss) == IF ss = << >> THEN << >> ELSE Head(ss) \o ConcatAll(Tail(ss))

\* The BufferInfos in the order the nested std::map loops visit them:
\* destination buffers in key order, offsets ascending within a buffer.
DataMapEntries(dm) ==
    LET bs == SortedSeq(DOMAIN dm)
        inner(b) == LET os == SortedSeq(DOMAIN dm[b])
                    IN [n \in 1..Len(os) |-> dm[b][os[n]]]
    IN ConcatAll([n \in 1..Len(bs) |-> inner(bs[n])])

\* The ImageInfos in the order the std::set loop visits them.
ImageInfoEntries(set) == SortedSeq(set)

\* data->dataSize(): valueCount values of the data's own stride.
DataSize(j) == ImageInfoTable[j].valueCount * FormatSize(ImageInfoTable[j].sourceFormat)

\* VkDeviceSize imageTotalSize = targetTraits.size * data->valueCount();
ImageTotalSize(j) == FormatSize(ImageInfoTable[j].targetFormat) * ImageInfoTable[j].valueCount

\* for (auto& imageInfo : dataToCopy.imageInfoSet) { ... } _imageTotalSize = offset;
RECURSIVE ImageSizePass(_, _)
ImageSizePass(images, offset) ==
    IF images = << >> THEN offset
    ELSE LET endOfEntry == offset + ImageTotalSize(Head(images))
         IN ImageSizePass(Tail(images), AlignUp(endOfEntry))

\* The size pass without its alignment step.
RECURSIVE BufferSizePassUnaligned(_, _)
BufferSizePassUnaligned(entries, offset) ==
    IF entries = << >> THEN offset
    ELSE BufferSizePassUnaligned(Tail(entries), offset + BufferInfoTable[Head(entries)].range)

\* for (auto& entry : dataToCopy.dataMap) { ... } _dataTotalSize = offset;
RECURSIVE BufferSizePass(_, _)
BufferSizePass(entries, offset) ==
    IF entries = << >> THEN offset
    ELSE LET endOfEntry == offset + BufferInfoTable[Head(entries)].range
         IN BufferSizePass(Tail(entries), AlignUp(endOfEntry))

\* bufferInfo->syncModifiedCounts(deviceID): true iff the copied count is not
\* the data's count, which it then becomes.
SyncModifiedCounts(modified) == modified

\* if (bufferInfo->referenceCount() == 1) ... erase, no copy
BufferInfoReclaimedNever(i) == FALSE

BufferInfoReclaimed(i) == BufferInfoReferenceCount(i) = 1

\* if (bufferInfo->syncModifiedCounts(deviceID)) ... memcpy, record region
BufferInfoCopiedWhenReferenced(i) == ~BufferInfoReclaimed(i)

BufferInfoCopied(i) == ~BufferInfoReclaimed(i) /\ SyncModifiedCounts(bufModified[i])

\* if (bufferInfo->data->properties.dataVariance == STATIC_DATA) ... erase
BufferInfoErasedOnlyWhenReclaimed(i) ==
    BufferInfoReclaimed(i)

BufferInfoErasedAlways(i) == TRUE

BufferInfoErased(i) ==
    \/ BufferInfoReclaimed(i)
    \/ BufferInfoTable[i].dataVariance = STATIC_DATA

\* The offset after one copied entry, were it not aligned.
OffsetAfterBufferInfoUnaligned(offset, i) == offset + BufferInfoTable[i].range

\* The offset after one copied entry.
\* VkDeviceSize endOfEntry = offset + bufferInfo->range; offset = aligned endOfEntry
OffsetAfterBufferInfo(offset, i) == AlignUp(offset + BufferInfoTable[i].range)

\* void TransferTask::_transferBufferInfos(...): the regions recorded, in
\* order, and the offset reached.
RECURSIVE TransferBufferInfoRegions(_, _, _)
TransferBufferInfoRegions(entries, offset, regions) ==
    IF entries = << >> THEN [offset |-> offset, regions |-> regions]
    ELSE LET i == Head(entries)
             region == [bufferInfo |-> i, buffer |-> BufferInfoTable[i].buffer,
                        srcOffset |-> offset, dstOffset |-> BufferInfoTable[i].offset,
                        size |-> BufferInfoTable[i].range]
         IN IF BufferInfoCopied(i)
            THEN TransferBufferInfoRegions(Tail(entries), OffsetAfterBufferInfo(offset, i),
                                           Append(regions, region))
            ELSE TransferBufferInfoRegions(Tail(entries), offset, regions)

\* if (regionCount > 0) vkCmdCopyBuffer(vk_commandBuffer, staging, buffer, regionCount, pRegions);
CopyBufferCommands(regions) ==
    LET bs == SortedSeq({regions[n].buffer : n \in 1..Len(regions)})
    IN [n \in 1..Len(bs) |->
          [cmd |-> "vkCmdCopyBuffer", dstBuffer |-> bs[n],
           regions |-> SelectSeq(regions, LAMBDA r : r.buffer = bs[n])]]

\* The ledger after the loops: erased entries gone, empty maps compacted away.
DataMapAfterTransfer(dm) ==
    LET keep(b) == {o \in DOMAIN dm[b] : ~BufferInfoErased(dm[b][o])}
        bs == {b \in DOMAIN dm : keep(b) # {}}
    IN [b \in bs |-> [o \in keep(b) |-> dm[b][o]]]

ImageInfoReclaimed(j) == ImageInfoReferenceCount(j) = 1
ImageInfoCopied(j) == ~ImageInfoReclaimed(j) /\ SyncModifiedCounts(imgModified[j])
ImageInfoErased(j) ==
    \/ ImageInfoReclaimed(j)
    \/ ImageInfoTable[j].dataVariance = STATIC_DATA

\* data->width(), height(), depth() and computeMipmapOffsets(): a row of
\* valueCount texels, one mip level.
DataExtent(j) ==
    [width |-> ImageInfoTable[j].valueCount, height |-> 1, depth |-> 1, mipmapOffsets |-> <<0>>]

\* _transferImageInfo taking the memcpy branch whatever the formats are.
TransferImageInfoAsIs(j, offset) ==
    [cmd |-> "transferImageData", imageInfo |-> j, source_offset |-> offset,
     written |-> DataSize(j), advance |-> DataSize(j),
     format |-> ImageInfoTable[j].sourceFormat,
     stride |-> FormatSize(ImageInfoTable[j].sourceFormat),
     extent |-> DataExtent(j)]

\* void TransferTask::_transferImageInfo(...): where the upload starts, how
\* many bytes are written to staging from there, how far offset advances,
\* and the properties and extent handed to transferImageData.
TransferImageInfo(j, offset) ==
    LET t == ImageInfoTable[j]
        sourceSize == FormatSize(t.sourceFormat)
        targetSize == FormatSize(t.targetFormat)
        perTexel == IF sourceSize > targetSize THEN sourceSize ELSE targetSize
    IN IF t.sourceFormat = t.targetFormat \/ sourceSize = targetSize
       THEN [cmd |-> "transferImageData", imageInfo |-> j, source_offset |-> offset,
             written |-> DataSize(j), advance |-> DataSize(j),
             format |-> t.sourceFormat, stride |-> sourceSize,
             extent |-> DataExtent(j)]
       ELSE [cmd |-> "transferImageData", imageInfo |-> j, source_offset |-> offset,
             written |-> t.valueCount * perTexel, advance |-> ImageTotalSize(j),
             format |-> t.targetFormat, stride |-> targetSize,
             extent |-> DataExtent(j)]

\* data->dataPointer(): byte s of texel t of the image's data, both counted
\* from 0; every byte of the data is different and none is a default value.
DataByte(t, s) == 10 * (t + 1) + s + 1

\* The bytes the inner loops write for texel t: bytesFromSource bytes of the
\* source, then, reading on from the start of defaultValue, as many bytes as
\* the target texel has more.
\*     for (; s < bytesFromSource; ++s) (*dest_ptr++) = *(src_ptr++);
\*     const value_type* src_default = default_ptr;
\*     for (; s < bytesToTarget; ++s) (*dest_ptr++) = *(src_default++);
TexelStaged(t, bytesFromSource, bytesToTarget, defaultValue) ==
    [s \in 1..bytesFromSource |-> DataByte(t, s - 1)]
        \o [p \in 1..(IF bytesToTarget > bytesFromSource
                      THEN bytesToTarget - bytesFromSource ELSE 0) |-> defaultValue[p - 1]]

\* The bytes _transferImageInfo writes to staging from ptr on: the data as it
\* is when the formats or their sizes agree, texel by texel otherwise.
StagedBytes(j, defaultValue) ==
    LET t == ImageInfoTable[j]
        bytesFromSource == FormatSize(t.sourceFormat)
        bytesToTarget == FormatSize(t.targetFormat)
        texels == [n \in 1..t.valueCount |->
                      IF t.sourceFormat = t.targetFormat \/ bytesFromSource = bytesToTarget
                      THEN [s \in 1..bytesFromSource |-> DataByte(n - 1, s - 1)]
                      ELSE TexelStaged(n - 1, bytesFromSource, bytesToTarget, defaultValue)]
    IN ConcatAll(texels)

\* void TransferTask::_transferImageInfos(...): the uploads, in order, and the
\* offset reached.
RECURSIVE TransferImageInfoUploads(_, _, _)
TransferImageInfoUploads(images, offset, uploads) ==
    IF images = << >> THEN [offset |-> offset, uploads |-> uploads]
    ELSE LET j == Head(images)
             upload == TransferImageInfo(j, offset)
         IN IF ImageInfoCopied(j)
            THEN TransferImageInfoUploads(Tail(images), offset + upload.advance,
                                          Append(uploads, upload))
            ELSE TransferImageInfoUploads(Tail(images), offset, uploads)

ImageInfoSetAfterTransfer(set) == {j \in set : ~ImageInfoErased(j)}

\* No entry has its modified counts synced.
BufferInfosSyncedNone(dm) == {}

\* The entries syncModifiedCounts(deviceID) is called on: those of the else
\* branch of the reference count test.
BufferInfosSynced(dm) == {i \in LedgerBufferInfos(dm) : ~BufferInfoReclaimed(i)}
ImageInfosSynced(set) == {j \in set : ~ImageInfoReclaimed(j)}

\* _transferBufferInfos(dataToCopy, vk_commandBuffer, frame, offset);
\* _transferImageInfos(dataToCopy, vk_commandBuffer, frame, offset);
RecordedCommandsImagesFirst(copies, uploads) == uploads \o copies

RecordedCommands(copies, uploads) == copies \o uploads

\* What is done with the frame's command buffer and the queue, in order:
\* vkBeginCommandBuffer, the recorded commands, vkEndCommandBuffer, and the
\* submit when there is one.
CommandBufferEvents(commands, submitted) ==
    <<[cmd |-> "vkBeginCommandBuffer"]>> \o commands \o <<[cmd |-> "vkEndCommandBuffer"]>>
        \o (IF submitted THEN <<[cmd |-> "submit"]>> ELSE << >>)

\* What stagingMemory->map() and transferQueue->submit() may return.
MapResults == {VK_SUCCESS, VK_ERROR_MEMORY_MAP_FAILED}
SubmitResults == {VK_SUCCESS, VK_ERROR_DEVICE_LOST, VK_ERROR_OUT_OF_DEVICE_MEMORY}

\* What _frames[frameIndex] reads when frameIndex is past the end of _frames.
GarbageBlocks ==
    {EmptyTransferBlock,
     [staging |-> minimumStagingBufferSize, buffer_data |-> "mapped",
      transferCommandBuffer |-> TRUE, transferCompleteSemaphore |-> GarbageSemaphore]}

\* Undefined behaviour either stops the process or goes on.
UndefinedOutcomes == {"crash", "continue"}

\* if (frameIndex > _frames.size()) return VK_SUCCESS;
SentinelReturnsAtEnd(frameIndex) == frameIndex >= numBuffers

SentinelReturns(frameIndex) == frameIndex > numBuffers

\* if (!staging || staging->size < totalSize)
AllocateStagingNever(frame, totalSize) == frame.staging = 0

AllocateStaging(frame, totalSize) == frame.staging = 0 \/ frame.staging < totalSize

\* if (totalSize < minimumStagingBufferSize) totalSize = minimumStagingBufferSize;
NewStagingSizeUnclamped(totalSize) == totalSize

NewStagingSize(totalSize) ==
    IF totalSize < minimumStagingBufferSize THEN minimumStagingBufferSize ELSE totalSize

\* if (offset > 0) { ... submit ... }
SubmitsAlways(offset) == TRUE

Submits(offset) == offset > 0

\* result = transferQueue->submit(submitInfo); ... if (result != VK_SUCCESS) return result;
ResultAfterFailedSubmitSwallowed(submitResult) == VK_SUCCESS

ResultAfterFailedSubmit(submitResult) == submitResult

\* waitSemaphores.clear(), on both sides of if (offset > 0)
WaitSemaphoresKeptOnFailure(submitted, submitResult) ==
    IF submitted /\ submitResult # VK_SUCCESS THEN waitSemaphores ELSE << >>

WaitSemaphoresAfterSubmitDecision(submitted, submitResult) == << >>

\* VkResult TransferTask::_transferData(DataToCopy& dataToCopy), as a function
\* of the state, the frame slot it works on and what the driver answers.
TransferDataOutcome(frameIndex, frame, mapResult, submitResult) ==
    LET images == ImageInfoEntries(imageInfoSet)
        entries == DataMapEntries(dataMap)
        imageTotalSize == ImageSizePass(images, 0)
        dataTotalSize == BufferSizePass(entries, 0)
        totalSize == dataTotalSize + imageTotalSize
        semaphore == IF frame.transferCompleteSemaphore = NoSemaphore
                     THEN SemaphoreOf(frameIndex)
                     ELSE frame.transferCompleteSemaphore
        allocate == AllocateStaging(frame, totalSize)
        prepared == [staging |-> IF allocate THEN NewStagingSize(totalSize) ELSE frame.staging,
                     buffer_data |-> IF ~allocate THEN frame.buffer_data
                                     ELSE IF mapResult = VK_SUCCESS THEN "mapped" ELSE "null",
                     transferCommandBuffer |-> TRUE,
                     transferCompleteSemaphore |-> semaphore]
        buffers == TransferBufferInfoRegions(entries, 0, << >>)
        uploads == TransferImageInfoUploads(images, buffers.offset, << >>)
        offset == uploads.offset
        submitted == Submits(offset)
        commands == RecordedCommands(CopyBufferCommands(buffers.regions), uploads.uploads)
        start == [frameIndex |-> frameIndex, imageTotalSize |-> imageTotalSize,
                  dataTotalSize |-> dataTotalSize, dataTotalRegions |-> Len(entries),
                  currentTransferCompletedSemaphore |-> currentTransferCompletedSemaphore,
                  waitSemaphores |-> waitSemaphores,
                  frame |-> frame,
                  dataMap |-> dataMap, imageInfoSet |-> imageInfoSet,
                  bufModified |-> {i \in LedgerBufferInfos(dataMap) : bufModified[i]},
                  imgModified |-> {j \in imageInfoSet : imgModified[j]},
                  bufReclaimable |-> {i \in LedgerBufferInfos(dataMap) :
                                         BufferInfoReferenceCount(i) = 1},
                  imgReclaimable |-> {j \in imageInfoSet : ImageInfoReferenceCount(j) = 1}]
        early(ret) ==
            [ret |-> ret, result |-> VK_SUCCESS, recorded |-> FALSE, frameAccessed |-> FALSE,
             frame |-> frame, dataMap |-> dataMap, imageInfoSet |-> imageInfoSet,
             bufModified |-> bufModified, imgModified |-> imgModified,
             waitSemaphores |-> waitSemaphores,
             currentTransferCompletedSemaphore |-> currentTransferCompletedSemaphore,
             undefined |-> FALSE,
             last |-> [ret |-> ret, result |-> VK_SUCCESS, outOfBounds |-> FALSE,
                       nullWrite |-> FALSE, offset |-> 0, stagingSize |-> frame.staging,
                       regions |-> << >>, commands |-> << >>, events |-> << >>,
                       submits |-> << >>,
                       bufSynced |-> {}, imgSynced |-> {},
                       start |-> start]]
        mapFailed ==
            [ret |-> "mapFailure", result |-> mapResult, recorded |-> FALSE, frameAccessed |-> TRUE,
             frame |-> prepared, dataMap |-> dataMap, imageInfoSet |-> imageInfoSet,
             bufModified |-> bufModified, imgModified |-> imgModified,
             waitSemaphores |-> waitSemaphores,
             currentTransferCompletedSemaphore |-> currentTransferCompletedSemaphore,
             undefined |-> frameIndex >= numBuffers,
             last |-> [ret |-> "mapFailure", result |-> mapResult,
                       outOfBounds |-> frameIndex >= numBuffers,
                       nullWrite |-> FALSE, offset |-> 0, stagingSize |-> prepared.staging,
                       regions |-> << >>, commands |-> << >>, events |-> << >>,
                       submits |-> << >>,
                       bufSynced |-> {}, imgSynced |-> {},
                       start |-> start]]
        nullWrite ==
            /\ prepared.buffer_data = "null"
            /\ \/ \E n \in 1..Len(buffers.regions) : buffers.regions[n].size > 0
               \/ \E n \in 1..Len(uploads.uploads) : uploads.uploads[n].written > 0
        ret == IF ~submitted THEN "nothingToSubmit"
               ELSE IF submitResult = VK_SUCCESS THEN "success" ELSE "submitFailure"
        result == IF submitted /\ submitResult # VK_SUCCESS
                  THEN ResultAfterFailedSubmit(submitResult) ELSE VK_SUCCESS
        recorded ==
            [ret |-> ret, result |-> result, recorded |-> TRUE, frameAccessed |-> TRUE,
             frame |-> prepared,
             dataMap |-> DataMapAfterTransfer(dataMap),
             imageInfoSet |-> ImageInfoSetAfterTransfer(imageInfoSet),
             bufModified |-> [i \in BufferInfoIds |->
                                IF i \in BufferInfosSynced(dataMap)
                                THEN FALSE ELSE bufModified[i]],
             imgModified |-> [j \in ImageInfoIds |->
                                IF j \in ImageInfosSynced(imageInfoSet)
                                THEN FALSE ELSE imgModified[j]],
             waitSemaphores |-> WaitSemaphoresAfterSubmitDecision(submitted, submitResult),
             currentTransferCompletedSemaphore |->
                 IF submitted /\ submitResult = VK_SUCCESS THEN semaphore
                 ELSE currentTransferCompletedSemaphore,
             undefined |-> frameIndex >= numBuffers \/ nullWrite,
             last |-> [ret |-> ret, result |-> result,
                       outOfBounds |-> frameIndex >= numBuffers,
                       nullWrite |-> nullWrite, offset |-> offset,
                       stagingSize |-> prepared.staging,
                       regions |-> buffers.regions,
                       commands |-> commands,
                       events |-> CommandBufferEvents(commands, submitted),
                       submits |-> IF submitted
                                   THEN <<[waitSemaphores |-> waitSemaphores,
                                           signalSemaphores |-> <<semaphore>>,
                                           result |-> submitResult]>>
                                   ELSE << >>,
                       bufSynced |-> BufferInfosSynced(dataMap),
                       imgSynced |-> ImageInfosSynced(imageInfoSet),
                       start |-> start]]
    IN IF SentinelReturns(frameIndex) THEN early("sentinel")
       ELSE IF totalSize = 0 THEN early("zeroTotalSize")
       ELSE IF allocate /\ mapResult # VK_SUCCESS THEN mapFailed
       ELSE recorded

\* VkResult TransferTask::transferData()
transferData ==
    /\ ~halted
    /\ LET frameIndex == index(0)
           inBounds == frameIndex < numBuffers
       IN \E frame \in (IF inBounds THEN {_frames[frameIndex]} ELSE GarbageBlocks),
             mapResult \in MapResults, submitResult \in SubmitResults :
          \E o \in {TransferDataOutcome(frameIndex, frame, mapResult, submitResult)} :
          \E undefinedOutcome \in (IF o.undefined THEN UndefinedOutcomes ELSE {"continue"}) :
                IF o.undefined /\ undefinedOutcome = "crash"
                THEN /\ halted' = TRUE
                     /\ last' = [o.last EXCEPT !.ret = "crash"]
                     /\ UNCHANGED <<_frames, ledgerVars, submitVars>>
                ELSE /\ halted' = FALSE
                     /\ last' = o.last
                     /\ _frames' = IF inBounds /\ o.frameAccessed
                                   THEN [_frames EXCEPT ![frameIndex] = o.frame]
                                   ELSE _frames
                     /\ dataMap' = o.dataMap
                     /\ imageInfoSet' = o.imageInfoSet
                     /\ bufModified' = ForgetBufferInfos(o.bufModified, o.dataMap, FALSE)
                     /\ bufRefs' = ForgetBufferInfos(bufRefs, o.dataMap, 1)
                     /\ imgModified' = ForgetImageInfos(o.imgModified, o.imageInfoSet, FALSE)
                     /\ imgRefs' = ForgetImageInfos(imgRefs, o.imageInfoSet, 1)
                     /\ waitSemaphores' = o.waitSemaphores
                     /\ currentTransferCompletedSemaphore' = o.currentTransferCompletedSemaphore
    /\ UNCHANGED <<numBuffers, application, ringVars>>

\* ---------------------------------------------------------- specification

\* One caller at a time: each operation runs from lock to unlock in one step.
Advance == advance /\ UNCHANGED untouchedBySpec
AssignBufferInfoList == assignBufferInfoList /\ UNCHANGED untouchedBySpec
AssignImageInfoList == assignImageInfoList /\ UNCHANGED untouchedBySpec
ContainsDataToTransfer == containsDataToTransfer /\ UNCHANGED untouchedBySpec
TransferData == transferData /\ UNCHANGED untouchedBySpec
DirtyBufferData == dirtyBufferData /\ UNCHANGED untouchedBySpec
DirtyImageData == dirtyImageData /\ UNCHANGED untouchedBySpec
ReleaseBufferInfo == releaseBufferInfo /\ UNCHANGED untouchedBySpec
ReleaseImageInfo == releaseImageInfo /\ UNCHANGED untouchedBySpec
AddWaitSemaphore == addWaitSemaphore /\ UNCHANGED untouchedBySpec

Next ==
    \/ Advance
    \/ AssignBufferInfoList
    \/ AssignImageInfoList
    \/ ContainsDataToTransfer
    \/ TransferData
    \/ DirtyBufferData
    \/ DirtyImageData
    \/ ReleaseBufferInfo
    \/ ReleaseImageInfo
    \/ AddWaitSemaphore

Spec == Init /\ [][Next]_vars

\* ------------------------------------------------------------- the threads

\* The operations that take _mutex with a std::scoped_lock.
LockedOperations ==
    {"advance", "assignBufferInfoList", "assignImageInfoList", "containsDataToTransfer",
     "transferData", "assignDynamicData.bufferInfos", "assignDynamicData.imageInfos"}

\* The dynamicData handed to assign(dynamicData): the BufferInfos and the
\* ImageInfos the application owns.
DynamicData ==
    [bufferInfos |-> SortedSeq(application.bufferInfos),
     imageInfos |-> SortedSeq(application.imageInfos)]

\* std::scoped_lock<std::mutex> lock(_mutex): the constructor returns once no
\* thread owns the mutex.
LockAvailableAlways(owners) == TRUE

LockAvailable(owners) == owners = {}

\* The scoped_lock's destructor runs on every return path: the owner lets go.
MutexKeptOnFailure(owners, ret) ==
    IF ret \in {"mapFailure", "submitFailure"} THEN owners ELSE {}

MutexAfterReturn(owners, ret) == {}

\* A thread calls an operation and gets past the lock's constructor;
\* assign(dynamicData) does so twice, in assign(dynamicData.bufferInfos) and,
\* after that has returned, in assign(dynamicData.imageInfos).
lock(t) ==
    /\ ~halted
    /\ pc[t] \in {"idle", "assignDynamicData"}
    /\ LockAvailable(_mutex)
    /\ \E operation \in LockedOperations :
          /\ operation = "advance" => advanceCalls < numBuffers + ExtraFrames
          /\ (pc[t] = "assignDynamicData") <=> (operation = "assignDynamicData.imageInfos")
          /\ pc' = [pc EXCEPT ![t] = operation]
    /\ _mutex' = _mutex \cup {t}
    /\ UNCHANGED <<numBuffers, application, _frames, ringVars, ledgerVars, submitVars,
                   halted, last, untouchedByThreads>>

\* The thread runs the operation's body and returns; a crash ends the process
\* where it is.
return(t) ==
    /\ IF halted' THEN UNCHANGED threadVars
       ELSE /\ pc' = [pc EXCEPT ![t] = "idle"]
            /\ _mutex' = MutexAfterReturn(_mutex, last'.ret)
    /\ UNCHANGED untouchedByThreads

advanceLocked(t) == pc[t] = "advance" /\ advance /\ return(t)
assignBufferInfoListLocked(t) == pc[t] = "assignBufferInfoList" /\ assignBufferInfoList /\ return(t)
assignImageInfoListLocked(t) == pc[t] = "assignImageInfoList" /\ assignImageInfoList /\ return(t)
containsDataToTransferLocked(t) == pc[t] = "containsDataToTransfer" /\ containsDataToTransfer /\ return(t)
transferDataLocked(t) == pc[t] = "transferData" /\ transferData /\ return(t)

\* void TransferTask::assign(const ResourceRequirements::DynamicData& dynamicData):
\* assign(dynamicData.bufferInfos) returns, the lock it took is gone and the
\* thread is in assign(dynamicData) with the ImageInfos still to assign.
assignDynamicDataBufferInfosLocked(t) ==
    /\ pc[t] = "assignDynamicData.bufferInfos"
    /\ assignBufferInfos(DynamicData.bufferInfos)
    /\ pc' = [pc EXCEPT ![t] = "assignDynamicData"]
    /\ _mutex' = MutexAfterReturn(_mutex, last'.ret)
    /\ UNCHANGED untouchedByThreads

assignDynamicDataImageInfosLocked(t) ==
    /\ pc[t] = "assignDynamicData.imageInfos"
    /\ assignImageInfos(DynamicData.imageInfos)
    /\ return(t)

\* One frame slot, one BufferInfo and one image: every return path of
\* transferData() is there.
InitThreads ==
    /\ numBuffers = 1
    /\ application = [bufferInfos |-> {2}, imageInfos |-> {2}]
    /\ Constructed
    /\ ImageAside
    /\ IntersectorAside

NextThreads ==
    \/ \E t \in Threads :
          \/ lock(t)
          \/ advanceLocked(t)
          \/ assignBufferInfoListLocked(t)
          \/ assignImageInfoListLocked(t)
          \/ containsDataToTransferLocked(t)
          \/ transferDataLocked(t)
          \/ assignDynamicDataBufferInfosLocked(t)
          \/ assignDynamicDataImageInfosLocked(t)
    \/ DirtyBufferData
    \/ DirtyImageData
    \/ ReleaseBufferInfo
    \/ ReleaseImageInfo
    \/ AddWaitSemaphore

SpecThreads == InitThreads /\ [][NextThreads]_vars

\* ------------------------------------------------- sequences of assign()

\* Every BufferInfo of the fixture is the application's to assign, in lists
\* of up to two.
InitAssign ==
    /\ numBuffers = 1
    /\ application = [bufferInfos |-> BufferInfoIds, imageInfos |-> {}]
    /\ Constructed
    /\ ImageAside
    /\ IntersectorAside

\* assign(bufferInfoList), remembering the list and the ledger it found.
assignBufferInfoListRecorded ==
    \E bufferInfoList \in ListsOf(application.bufferInfos) :
        /\ assignBufferInfos(bufferInfoList)
        /\ assigned' = [bufferInfoList |-> bufferInfoList, before |-> dataMap]
        /\ UNCHANGED untouchedByAssign

NextAssign == assignBufferInfoListRecorded

SpecAssign == InitAssign /\ [][NextAssign]_vars

\* ------------------------------------------------- one image, byte by byte

\* The values a byte of targetTraits.defaultValue may have.
DefaultBytes == {0, 255}

\* targetTraits.defaultValue: "a vec4 worth of default values", any table.
DefaultValues == [0..3 -> DefaultBytes]

\* Any image of the fixture that has data, any defaultValue table, at the
\* start of staging or further in.
InitImage ==
    /\ numBuffers = 1
    /\ application = [bufferInfos |-> {}, imageInfos |-> {}]
    /\ Constructed
    /\ image \in {[imageInfo |-> j, defaultValue |-> d, offset |-> o] :
                     j \in {k \in ImageInfoIds : ImageInfoTable[k].hasData},
                     d \in DefaultValues, o \in {0, alignment}}
    /\ staged = NothingStaged
    /\ IntersectorAside

\* _transferImageInfo(vk_commandBuffer, frame, offset, imageInfo)
transferImageInfo ==
    /\ ~staged.done
    /\ staged' = [done |-> TRUE,
                  bytes |-> StagedBytes(image.imageInfo, image.defaultValue),
                  upload |-> TransferImageInfo(image.imageInfo, image.offset)]
    /\ UNCHANGED <<image, untouchedByImage>>

NextImage == transferImageInfo

SpecImage == InitImage /\ [][NextImage]_vars

\* ------------------------------------------------------ PolytopeIntersector

\* Geometry on one axis. A matrix is a translation along it, a plane
\* dplane(n, d) holds the points v with n * v + d >= 0.
IdentityMatrix == [translate |-> 0]

\* transform.transform(parent): the parent matrix times the transform's own.
TransformOf(transform, parent) == [translate |-> parent.translate + transform.translate]

\* inverse(localToWorld)
Inverse(m) == [translate |-> 0 - m.translate]

\* pl * localToWorld
PlaneTimesMatrix(pl, m) == [n |-> pl.n, d |-> pl.n * m.translate + pl.d]

\* vsg::inside(polytope, v): v is on the inner side of every plane.
Inside(polytope, v) == \A k \in 1..Len(polytope) : polytope[k].n * v + polytope[k].d >= 0

\* The polytopes an intersector is constructed with: 0 <= v <= 2, and 1 <= v.
Polytopes ==
    {<<[n |-> 1, d |-> 0], [n |-> -1, d |-> 2]>>,
     <<[n |-> 1, d |-> -1]>>}

\* The transforms of the scene graph.
Transforms == {[translate |-> 1], [translate |-> -2]}

\* What front() and back() read on an empty vector, and what an empty vector
\* looks like after pop_back().
GarbagePolytopes == {<< >>, <<[n |-> 0, d |-> -1]>>}
GarbagePolytopeStacks == {<< >>} \cup {<<g>> : g \in GarbagePolytopes}
GarbageMatrixStacks == {<< >>, <<IdentityMatrix>>}

\* A pop_back() that leaves the vector as it is.
PopBackKeeping(stack, garbage) == [undefined |-> FALSE, stacks |-> {stack}]

\* A back() that reads the first element.
BackReadsFront(stack) ==
    IF stack = << >> THEN [undefined |-> TRUE, values |-> GarbagePolytopes]
    ELSE [undefined |-> FALSE, values |-> {stack[1]}]

\* std::vector::pop_back(): the shorter vector, or undefined on an empty one.
PopBack(stack, garbage) ==
    IF stack = << >> THEN [undefined |-> TRUE, stacks |-> garbage]
    ELSE [undefined |-> FALSE, stacks |-> {SubSeq(stack, 1, Len(stack) - 1)}]

\* A front() that reads the last element.
FrontReadsBack(stack) ==
    IF stack = << >> THEN [undefined |-> TRUE, values |-> GarbagePolytopes]
    ELSE [undefined |-> FALSE, values |-> {stack[Len(stack)]}]

\* _polytopeStack.front() and _polytopeStack.back()
Front(stack) ==
    IF stack = << >> THEN [undefined |-> TRUE, values |-> GarbagePolytopes]
    ELSE [undefined |-> FALSE, values |-> {stack[1]}]
Back(stack) ==
    IF stack = << >> THEN [undefined |-> TRUE, values |-> GarbagePolytopes]
    ELSE [undefined |-> FALSE, values |-> {stack[Len(stack)]}]

\* PolytopeIntersector::PolytopeIntersector(const Polytope& in_polytope, ...):
\* the array state's matrix stacks start empty.
InitIntersector ==
    /\ numBuffers = 1
    /\ application = [bufferInfos |-> {}, imageInfos |-> {}]
    /\ Constructed
    /\ ImageAside
    /\ \E in_polytope \in Polytopes : _polytopeStack = <<in_polytope>>
    /\ localToWorldStack = << >>
    /\ worldToLocalStack = << >>
    /\ intersections = << >>
    /\ lastIntersector = NoIntersectorCall
    /\ camera = NoCamera

\* The three stacks as one value.
Stacks == [polytope |-> _polytopeStack, localToWorld |-> localToWorldStack,
           worldToLocal |-> worldToLocalStack]

\* void PolytopeIntersector::pushTransform(const Transform& transform)
pushTransform ==
    /\ ~halted
    /\ lastIntersector.outstanding < MaxTransformDepth
    /\ \E transform \in Transforms, worldspace \in Front(_polytopeStack).values,
          undefinedOutcome \in (IF Front(_polytopeStack).undefined
                                THEN UndefinedOutcomes ELSE {"continue"}) :
          LET localToWorld ==
                  IF localToWorldStack = << >> THEN TransformOf(transform, IdentityMatrix)
                  ELSE TransformOf(transform, localToWorldStack[Len(localToWorldStack)])
              worldToLocal == Inverse(localToWorld)
              localspace == [k \in 1..Len(worldspace) |->
                                PlaneTimesMatrix(worldspace[k], localToWorld)]
              call == [op |-> "pushTransform", ret |-> "returned",
                       outstanding |-> lastIntersector.outstanding + 1,
                       stray |-> lastIntersector.stray,
                       unmatched |-> Append(lastIntersector.unmatched, localspace),
                       snapshots |-> Append(lastIntersector.snapshots, Stacks),
                       before |-> Stacks]
          IN IF undefinedOutcome = "crash"
             THEN /\ halted' = TRUE
                  /\ lastIntersector' = [call EXCEPT !.ret = "crash"]
                  /\ UNCHANGED stackVars
             ELSE /\ halted' = FALSE
                  /\ lastIntersector' = call
                  /\ localToWorldStack' = Append(localToWorldStack, localToWorld)
                  /\ worldToLocalStack' = Append(worldToLocalStack, worldToLocal)
                  /\ _polytopeStack' = Append(_polytopeStack, localspace)
    /\ UNCHANGED <<intersections, untouchedByIntersector>>

\* void PolytopeIntersector::popTransform()
popTransform ==
    /\ ~halted
    /\ LET polytopes == PopBack(_polytopeStack, GarbagePolytopeStacks)
           l2w == PopBack(localToWorldStack, GarbageMatrixStacks)
           w2l == PopBack(worldToLocalStack, GarbageMatrixStacks)
           undefined == polytopes.undefined \/ l2w.undefined \/ w2l.undefined
           call == [op |-> "popTransform", ret |-> "returned",
                    outstanding |-> IF lastIntersector.outstanding > 0
                                    THEN lastIntersector.outstanding - 1 ELSE 0,
                    stray |-> lastIntersector.stray \/ lastIntersector.outstanding = 0,
                    unmatched |-> IF lastIntersector.unmatched = << >> THEN << >>
                                  ELSE SubSeq(lastIntersector.unmatched, 1,
                                              Len(lastIntersector.unmatched) - 1),
                    snapshots |-> IF lastIntersector.snapshots = << >> THEN << >>
                                  ELSE SubSeq(lastIntersector.snapshots, 1,
                                              Len(lastIntersector.snapshots) - 1),
                    matched |-> IF lastIntersector.snapshots = << >> THEN << >>
                                ELSE <<lastIntersector.snapshots[Len(lastIntersector.snapshots)]>>,
                    before |-> Stacks]
       IN \E undefinedOutcome \in (IF undefined THEN UndefinedOutcomes ELSE {"continue"}) :
             IF undefinedOutcome = "crash"
             THEN /\ halted' = TRUE
                  /\ lastIntersector' = [call EXCEPT !.ret = "crash"]
                  /\ UNCHANGED stackVars
             ELSE /\ halted' = FALSE
                  /\ lastIntersector' = call
                  /\ _polytopeStack' \in polytopes.stacks
                  /\ localToWorldStack' \in l2w.stacks
                  /\ worldToLocalStack' \in w2l.stacks
    /\ UNCHANGED <<intersections, untouchedByIntersector>>

\* The bounding spheres tested: one that is not valid and two that are.
Spheres ==
    {[center |-> 1, radius |-> -1], [center |-> 2, radius |-> 1],
     [center |-> -4, radius |-> 1]}

\* bs.valid()
SphereValid(bs) == bs.radius > 0

\* vsg::intersect(polytope, bs): the signed distance of the centre to every
\* plane is at least -radius.
IntersectSphere(polytope, bs) ==
    \A k \in 1..Len(polytope) :
        polytope[k].n * bs.center + polytope[k].d >= 0 - bs.radius

\* bool PolytopeIntersector::intersects(const dsphere& bs)
intersects ==
    /\ ~halted
    /\ \E bs \in Spheres :
          LET call == [op |-> "intersects", outstanding |-> lastIntersector.outstanding,
                       stray |-> lastIntersector.stray,
                       unmatched |-> lastIntersector.unmatched,
                       snapshots |-> lastIntersector.snapshots, before |-> Stacks,
                       bs |-> bs, ret |-> "returned", consulted |-> << >>,
                       result |-> FALSE]
              top == Back(_polytopeStack)
          IN IF ~SphereValid(bs)
             THEN /\ lastIntersector' = call
                  /\ halted' = FALSE
             ELSE \E polytope \in top.values,
                     undefinedOutcome \in (IF top.undefined THEN UndefinedOutcomes
                                           ELSE {"continue"}) :
                     IF undefinedOutcome = "crash"
                     THEN /\ halted' = TRUE
                          /\ lastIntersector' = [call EXCEPT !.ret = "crash"]
                     ELSE /\ halted' = FALSE
                          /\ lastIntersector' =
                                 [call EXCEPT !.consulted = <<polytope>>,
                                              !.result = IntersectSphere(polytope, bs)]
    /\ UNCHANGED <<stackVars, intersections, untouchedByIntersector>>

\* The array states on top of arrayStateStack: topology, and the vertex
\* array vertexArray(instanceIndex) hands out, null for some instances.
NullArray == [null |-> TRUE, values |-> << >>]
VertexArray(values) == [null |-> FALSE, values |-> values]
ArrayStates ==
    {[topology |-> "TRIANGLE_LIST",
      vertexArray |-> [n \in 0..2 |-> VertexArray(<<-9, 1, -9, -9, -9, 2, -9, -9>>)]],
     [topology |-> "TRIANGLE_LIST",
      vertexArray |-> [n \in 0..2 |->
                          IF n = 0 THEN NullArray ELSE VertexArray(<<3, -9, -9>>)]],
     [topology |-> "LINE_LIST",
      vertexArray |-> [n \in 0..2 |-> VertexArray(<<1, 1, 1, 1, 1, 1>>)]]}

\* ushort_indices and uint_indices: at most one of them is consulted.
IndexArrays ==
    {[kind |-> "none", values |-> << >>],
     [kind |-> "ushort", values |-> <<0, 1, 2, 3, 4, 5>>],
     [kind |-> "uint", values |-> <<2, 1, 0, 2, 1, 0, 2, 1>>]}

\* The arguments of a draw call.
FirstVertices == {0, 2}
VertexCounts == {2, 3, 4}
FirstInstances == {0}
InstanceCounts == {0, 2}

\* uint32_t endVertex = int((firstVertex + vertexCount) / 3.0f) * 3;
EndVertex(firstVertex, vertexCount) == ((firstVertex + vertexCount) \div 3) * 3

\* for (uint32_t i = firstVertex; i < endVertex; i += 3): the values of i.
LoopStarts(firstVertex, endVertex) ==
    {i \in firstVertex..(endVertex - 1) : (i - firstVertex) % 3 = 0}

\* uint32_t lastIndex = instanceCount > 1 ? (firstInstance + instanceCount) : firstInstance + 1;
LastIndex(firstInstance, instanceCount) ==
    IF instanceCount > 1 THEN firstInstance + instanceCount ELSE firstInstance + 1

\* array->at(i): positions count from 0 and are not range checked.
InRange(values, i) == i >= 0 /\ i < Len(values)
At(values, i) == values[i + 1]

\* The instances intersectDraw() tests: it returns at the first instance
\* without a vertex array.
InstancesDrawn(arrayState, firstInstance, lastIndex) ==
    {n \in firstInstance..(lastIndex - 1) :
        \A m \in firstInstance..n : ~arrayState.vertexArray[m].null}

\* The instances intersectDrawIndexed() tests: it skips an instance without a
\* vertex array.
InstancesDrawnIndexed(arrayState, firstInstance, lastIndex) ==
    {n \in firstInstance..(lastIndex - 1) : ~arrayState.vertexArray[n].null}

\* The index-array positions read by the loops over one instance.
PositionsRead(indices, firstIndex, endIndex) ==
    IF indices.kind = "none" THEN {}
    ELSE UNION {{i, i + 1, i + 2} : i \in LoopStarts(firstIndex, endIndex)}

\* PrimtiveIntersector::intersect(i0, i1, i2) on vertices that are all in
\* range: some vertex is inside the polytope.
TriangleIntersect(polytope, values, triangle) ==
    \E k \in 1..3 : Inside(polytope, At(values, triangle[k]))

\* What the draw functions do with the outcome of intersect(): they log it
\* and leave the intersections list alone.
IntersectionsAfter(list, hit) == list

\* The triangles one instance tests, as triples of vertex indices; a triple
\* holds -1 where the index came from outside the index array.
TrianglesTested(indexed, indices, first, end) ==
    IF ~indexed THEN {<<i, i + 1, i + 2>> : i \in LoopStarts(first, end)}
    ELSE IF indices.kind = "none" THEN {}
    ELSE {[k \in 1..3 |-> IF InRange(indices.values, i + k - 1)
                           THEN At(indices.values, i + k - 1) ELSE -1] :
             i \in LoopStarts(first, end)}

\* The body shared by intersectDraw() and intersectDrawIndexed(): the possible
\* records of one call.
DrawCalls(op, indexed, arrayState, indices, first, count, firstInstance, instanceCount) ==
    LET base == [op |-> op, outstanding |-> lastIntersector.outstanding,
                 stray |-> lastIntersector.stray,
                 unmatched |-> lastIntersector.unmatched,
                 snapshots |-> lastIntersector.snapshots, before |-> Stacks,
                 topology |-> arrayState.topology, first |-> first, count |-> count,
                 previous_size |-> Len(intersections)]
        nothing == [instances |-> {}, positions |-> {}, reads |-> {},
                    undefined |-> FALSE, inside |-> FALSE, ret |-> "returned",
                    result |-> FALSE, intersections |-> intersections]
    IN IF arrayState.topology # "TRIANGLE_LIST" \/ count < 3
       THEN {[f \in DOMAIN base \cup DOMAIN nothing |->
                 IF f \in DOMAIN base THEN base[f] ELSE nothing[f]]}
       ELSE LET top == Back(_polytopeStack)
                lastIndex == LastIndex(firstInstance, instanceCount)
                instances == IF indexed
                             THEN InstancesDrawnIndexed(arrayState, firstInstance, lastIndex)
                             ELSE InstancesDrawn(arrayState, firstInstance, lastIndex)
                end == EndVertex(first, count)
                triangles == TrianglesTested(indexed, indices, first, end)
                positions == IF instances = {} THEN {}
                             ELSE IF indexed THEN PositionsRead(indices, first, end)
                             ELSE UNION {{t[1], t[2], t[3]} : t \in triangles}
                reads == [instance : instances,
                          vertex : UNION {{t[1], t[2], t[3]} : t \in triangles}]
                outside == \E r \in reads :
                               ~InRange(arrayState.vertexArray[r.instance].values, r.vertex)
                undefined == top.undefined \/ outside
            IN UNION {
                 {[f \in DOMAIN base \cup DOMAIN nothing |->
                     IF f \in DOMAIN base THEN base[f]
                     ELSE [instances |-> instances, positions |-> positions,
                           reads |-> reads, undefined |-> undefined,
                           inside |-> hit,
                           ret |-> IF outcome = "crash" THEN "crash" ELSE "returned",
                           result |-> Len(IntersectionsAfter(intersections, hit))
                                          # Len(intersections),
                           intersections |-> IntersectionsAfter(intersections, hit)][f]] :
                      hit \in (IF undefined THEN BOOLEAN
                               ELSE {\E n \in instances, t \in triangles :
                                        TriangleIntersect(polytope,
                                            arrayState.vertexArray[n].values, t)}),
                      outcome \in (IF undefined THEN UndefinedOutcomes ELSE {"continue"})} :
                 polytope \in top.values}

\* bool PolytopeIntersector::intersectDraw(firstVertex, vertexCount, firstInstance, instanceCount)
intersectDraw ==
    /\ ~halted
    /\ \E arrayState \in ArrayStates, firstVertex \in FirstVertices,
          vertexCount \in VertexCounts, firstInstance \in FirstInstances,
          instanceCount \in InstanceCounts :
          \E call \in DrawCalls("intersectDraw", FALSE, arrayState,
                                 [kind |-> "none", values |-> << >>],
                                 firstVertex, vertexCount, firstInstance, instanceCount) :
             /\ lastIntersector' = call
             /\ halted' = (call.ret = "crash")
             /\ intersections' = IF call.ret = "crash" THEN intersections
                                 ELSE call.intersections
    /\ UNCHANGED <<stackVars, untouchedByIntersector>>

\* bool PolytopeIntersector::intersectDrawIndexed(firstIndex, indexCount, firstInstance, instanceCount)
intersectDrawIndexed ==
    /\ ~halted
    /\ \E arrayState \in ArrayStates, indices \in IndexArrays,
          firstIndex \in FirstVertices, indexCount \in VertexCounts,
          firstInstance \in FirstInstances, instanceCount \in InstanceCounts :
          \E call \in DrawCalls("intersectDrawIndexed", TRUE, arrayState, indices,
                                 firstIndex, indexCount, firstInstance, instanceCount) :
             /\ lastIntersector' = call
             /\ halted' = (call.ret = "crash")
             /\ intersections' = IF call.ret = "crash" THEN intersections
                                 ELSE call.intersections
    /\ UNCHANGED <<stackVars, untouchedByIntersector>>

NextIntersector ==
    \/ pushTransform
    \/ popTransform
    \/ intersects
    \/ intersectDraw
    \/ intersectDrawIndexed

SpecIntersector == InitIntersector /\ [][NextIntersector]_vars

\* --------------------------------------- an intersector built from a camera

\* Coordinates in space are counted in halves, so that the NDC points
\* (0.5, 0.5, 0.5) and (-0.5, 0, 0.5) are exact: a length l is stored as 2 * l.
Vec3(x, y, z) == [x |-> x, y |-> y, z |-> z]
Dot(a, b) == a.x * b.x + a.y * b.y + a.z * b.z

\* dplane(nx, ny, nz, d), with d in halves.
Plane(nx, ny, nz, d) == [n |-> Vec3(nx, ny, nz), d |-> d]

\* vsg::inside(polytope, v) for a point in space.
InsideSpace(polytope, v) ==
    \A k \in 1..Len(polytope) : Dot(polytope[k].n, v) + polytope[k].d >= 0

\* A matrix that scales each axis by 1 or -1 and then translates; its
\* element (2, 2) is the scale along z.
Matrix(sx, sy, sz, t) == [scale |-> Vec3(sx, sy, sz), translate |-> t]

\* pl * matrix: the plane that holds v exactly when pl holds matrix * v.
PlaneTimesMatrixSpace(pl, m) ==
    [n |-> Vec3(pl.n.x * m.scale.x, pl.n.y * m.scale.y, pl.n.z * m.scale.z),
     d |-> Dot(pl.n, m.translate) + pl.d]

\* camera.getViewport(): the 800 x 600 viewport with depth range 0..1, and
\* one without extent.
Viewports ==
    {[x |-> 0, y |-> 0, width |-> 800, height |-> 600, minDepth |-> 0, maxDepth |-> 1],
     [x |-> 0, y |-> 0, width |-> 0, height |-> 0, minDepth |-> 0, maxDepth |-> 1]}

\* camera.projectionMatrix->transform(): depth growing away from the camera
\* (element (2, 2) negative) or towards it (reverse-Z, element (2, 2) positive).
ProjectionMatrices == {Matrix(1, 1, -1, Vec3(0, 0, 0)), Matrix(1, 1, 1, Vec3(0, 0, 0))}

\* camera.viewMatrix->transform(): the identity, or the camera moved along x.
ViewMatrices == {Matrix(1, 1, 1, Vec3(0, 0, 0)), Matrix(1, 1, 1, Vec3(2, 0, 0))}

\* The sub-rectangles (xMin, yMin)-(xMax, yMax), in pixels.
SubRectangles ==
    [xMin : {0, 400}, yMin : {0, 300}, xMax : {400, 800}, yMax : {300, 600}]

Cameras ==
    [given : {TRUE}, viewport : Viewports, projectionMatrix : ProjectionMatrices,
     viewMatrix : ViewMatrices, rectangle : SubRectangles]

\* (viewport.width > 0) ? (2.0 * (xMin - viewport.x) / viewport.width - 1.0) : xMin,
\* in halves.
NdcOf(pixel, origin, extent) ==
    IF extent > 0 THEN (4 * (pixel - origin)) \div extent - 2 ELSE 2 * pixel

\* bool reverse_depth = (projectionMatrix(2, 2) > 0.0);
ReverseDepth(projectionMatrix) == projectionMatrix.scale.z > 0

\* double ndc_near = reverse_depth ? viewport.maxDepth : viewport.minDepth;
\* double ndc_far = reverse_depth ? viewport.minDepth : viewport.maxDepth;
NdcNear(reverse_depth, viewport) ==
    2 * (IF reverse_depth THEN viewport.maxDepth ELSE viewport.minDepth)
NdcFar(reverse_depth, viewport) ==
    2 * (IF reverse_depth THEN viewport.minDepth ELSE viewport.maxDepth)

\* The NDC values the constructor computes.
NdcBox(c) ==
    LET reverse_depth == ReverseDepth(c.projectionMatrix)
    IN [xMin |-> NdcOf(c.rectangle.xMin, c.viewport.x, c.viewport.width),
        xMax |-> NdcOf(c.rectangle.xMax, c.viewport.x, c.viewport.width),
        yMin |-> NdcOf(c.rectangle.yMin, c.viewport.y, c.viewport.height),
        yMax |-> NdcOf(c.rectangle.yMax, c.viewport.y, c.viewport.height),
        near |-> NdcNear(reverse_depth, c.viewport),
        far |-> NdcFar(reverse_depth, c.viewport)]

\* clipspace.push_back(dplane(1.0, 0.0, 0.0, -ndc_xMin)); // left  ... // far
Clipspace(ndc) ==
    <<Plane(1, 0, 0, 0 - ndc.xMin),
      Plane(-1, 0, 0, ndc.xMax),
      Plane(0, 1, 0, 0 - ndc.yMin),
      Plane(0, -1, 0, ndc.yMax),
      Plane(0, 0, -1, ndc.near),
      Plane(0, 0, 1, ndc.far)>>

\* for (auto& pl : clipspace) eyespace.push_back(pl * projectionMatrix);
PolytopeTimesMatrix(polytope, m) ==
    [k \in 1..Len(polytope) |-> PlaneTimesMatrixSpace(polytope[k], m)]

\* Any camera and sub-rectangle of the fixture; nothing is constructed yet.
InitCamera ==
    /\ numBuffers = 1
    /\ application = [bufferInfos |-> {}, imageInfos |-> {}]
    /\ Constructed
    /\ ImageAside
    /\ camera \in Cameras
    /\ _polytopeStack = << >>
    /\ localToWorldStack = << >>
    /\ worldToLocalStack = << >>
    /\ intersections = << >>
    /\ lastIntersector = NoIntersectorCall

\* PolytopeIntersector::PolytopeIntersector(const Camera& camera, double xMin,
\*     double yMin, double xMax, double yMax, ...)
constructFromCamera ==
    /\ camera.given
    /\ lastIntersector.op = "none"
    /\ LET ndc == NdcBox(camera)
           clipspace == Clipspace(ndc)
           eyespace == PolytopeTimesMatrix(clipspace, camera.projectionMatrix)
           worldspace == PolytopeTimesMatrix(eyespace, camera.viewMatrix)
       IN /\ _polytopeStack' = Append(_polytopeStack, worldspace)
          /\ lastIntersector' = [op |-> "PolytopeIntersector", outstanding |-> 0,
                                 stray |-> FALSE, unmatched |-> << >>, snapshots |-> << >>,
                                 ndc |-> ndc, clipspace |-> clipspace,
                                 eyespace |-> eyespace]
    /\ UNCHANGED untouchedByCamera

NextCamera == constructFromCamera

SpecCamera == InitCamera /\ [][NextCamera]_vars

\* ----------------------------------------------------------------- claims

\* transferData() was the last operation and returned (did not crash).
TransferDataReturned == last.ret \notin {"none", "crash"}

\* The last transferData() call got as far as recording commands.
RecordPhaseReached == last.ret \in {"success", "submitFailure", "nothingToSubmit"}

\* The last transferData() call worked on a frame slot >= numBuffers.
StrayFrame == last.ret # "none" /\ last.outOfBounds

Smaller(a, b) == IF a < b THEN a ELSE b

RECURSIVE SumAligned(_)
SumAligned(regions) ==
    IF regions = << >> THEN 0
    ELSE AlignUp(Head(regions).size) + SumAligned(Tail(regions))

Uploads(commands) == SelectSeq(commands, LAMBDA c : c.cmd = "transferImageData")

\* C1: after the F-th advance() (F >= 1), index(0) = (F-1) mod N, and for every
\* k < min(F, N), index(k) is the value index(0) had right after advance()
\* call number F-k: the indices are a shift register of the slots used k
\* frames ago.
C1_ShiftRegister ==
    advanceCalls >= 1 =>
        /\ index(0) = (advanceCalls - 1) % numBuffers
        /\ \A k \in 0..(Smaller(advanceCalls, numBuffers) - 1) :
              index(k) = indexHistory[k + 1]

C1_Witness ==
    /\ numBuffers >= 2
    /\ advanceCalls > numBuffers
    /\ index(0) = 0
    /\ index(1) = numBuffers - 1

\* C2: index(k) is the sentinel N for every k >= N and for every k < N with
\* fewer than k+1 advance() calls made; for every populated k it is in [0, N).
C2_SentinelUntilPopulated ==
    \A k \in 0..(numBuffers + 1) :
        IF k >= numBuffers \/ advanceCalls < k + 1
        THEN index(k) = numBuffers
        ELSE index(k) \in 0..(numBuffers - 1)

C2_Witness ==
    /\ numBuffers >= 2
    /\ advanceCalls = 1
    /\ index(0) = 0
    /\ index(1) = numBuffers

\* C3: transferData() called while index(0) is the sentinel N returns success
\* with no work whatever the ledger holds: no frame slot is accessed, nothing
\* is created, recorded or submitted, and the ledger and the cached modified
\* counts are as before.
C3_SentinelTransferDoesNothing ==
    (last.ret # "none" /\ last.start.frameIndex = numBuffers) =>
        /\ last.ret \in {"sentinel", "zeroTotalSize"}
        /\ last.result = VK_SUCCESS
        /\ ~last.outOfBounds
        /\ last.commands = << >>
        /\ last.submits = << >>
        /\ dataMap = last.start.dataMap
        /\ imageInfoSet = last.start.imageInfoSet
        /\ {i \in LedgerBufferInfos(dataMap) : bufModified[i]} = last.start.bufModified
        /\ {j \in imageInfoSet : imgModified[j]} = last.start.imgModified

\* C4 as claimed: after transferData() returns on any path (with a frame slot
\* of the ring), every BufferInfo still in the ledger is DYNAMIC or was not
\* modified when the call started.
C4_EveryReturnPath ==
    (TransferDataReturned /\ ~StrayFrame) =>
        \A i \in LedgerBufferInfos(dataMap) :
            \/ BufferInfoTable[i].dataVariance = DYNAMIC_DATA
            \/ i \notin last.start.bufModified

\* C4 as amended: after a transferData() call that reaches the record phase,
\* every BufferInfo still in the ledger is DYNAMIC or was not modified when
\* the call started.
C4_AfterRecordPhase ==
    RecordPhaseReached =>
        \A i \in LedgerBufferInfos(dataMap) :
            \/ BufferInfoTable[i].dataVariance = DYNAMIC_DATA
            \/ i \notin last.start.bufModified

C4_Witness ==
    /\ RecordPhaseReached
    /\ ~StrayFrame
    /\ \E i \in last.start.bufModified :
          /\ BufferInfoTable[i].dataVariance = STATIC_DATA
          /\ i \notin LedgerBufferInfos(dataMap)
    /\ dataMap # << >>

\* No image of the ledger had a source texel larger than its target texel.
NoShrinkingImage ==
    \A j \in last.start.imageInfoSet :
        FormatSize(ImageInfoTable[j].sourceFormat) <= FormatSize(ImageInfoTable[j].targetFormat)

\* C5: every staging range written in one transferData() call lies inside the
\* slot's staging buffer, for buffer-copy regions (srcOffset + size) and image
\* uploads (source_offset + staged bytes), when no image has a source texel
\* larger than its target texel.
C5_WritesInsideStaging ==
    (RecordPhaseReached /\ NoShrinkingImage) =>
        /\ \A n \in 1..Len(last.regions) :
              last.regions[n].srcOffset + last.regions[n].size <= last.stagingSize
        /\ \A n \in 1..Len(Uploads(last.commands)) :
              Uploads(last.commands)[n].source_offset + Uploads(last.commands)[n].written
                  <= last.stagingSize

C5_Witness ==
    /\ RecordPhaseReached
    /\ ~StrayFrame
    /\ NoShrinkingImage
    /\ Len(last.regions) >= 1
    /\ Len(Uploads(last.commands)) >= 1
    /\ last.stagingSize > minimumStagingBufferSize
    /\ last.start.frame.staging = minimumStagingBufferSize

\* C6: every upload of a transferData() call starts at a staging offset that
\* is a multiple of 4: the srcOffset of each buffer-copy region and the
\* source_offset of each image upload.
C6_UploadsAligned ==
    (RecordPhaseReached /\ ~StrayFrame) =>
        /\ \A n \in 1..Len(last.regions) : last.regions[n].srcOffset % alignment = 0
        /\ \A n \in 1..Len(Uploads(last.commands)) :
              Uploads(last.commands)[n].source_offset % alignment = 0

\* C7 as claimed: the regions emitted by a call that reaches the record phase
\* add up, each aligned to 4, to the dataTotalSize of that call's size pass.
C7_SumEqualsDataTotalSize ==
    (RecordPhaseReached /\ ~StrayFrame) =>
        SumAligned(last.regions) = last.start.dataTotalSize

\* C7 as amended: they add up to at most dataTotalSize, and to exactly
\* dataTotalSize when every BufferInfo of the ledger was copied.
C7_SumAtMostDataTotalSize ==
    RecordPhaseReached =>
        /\ SumAligned(last.regions) <= last.start.dataTotalSize
        /\ Len(last.regions) = last.start.dataTotalRegions =>
               SumAligned(last.regions) = last.start.dataTotalSize

C7_Witness ==
    /\ RecordPhaseReached
    /\ ~StrayFrame
    /\ Len(last.regions) >= 1
    /\ Len(last.regions) < last.start.dataTotalRegions
    /\ SumAligned(last.regions) < last.start.dataTotalSize

\* C8: when transferData() returns success with the staging offset at 0, no
\* queue submit was made in the call and currentTransferCompletedSemaphore is
\* what it was before the call.
C8_NothingRecordedNothingSubmitted ==
    (TransferDataReturned /\ last.result = VK_SUCCESS /\ last.offset = 0) =>
        /\ last.submits = << >>
        /\ currentTransferCompletedSemaphore = last.start.currentTransferCompletedSemaphore

C8_Witness ==
    /\ last.ret = "nothingToSubmit"
    /\ ~StrayFrame
    /\ last.offset = 0
    /\ last.start.dataTotalSize > 0
    /\ currentTransferCompletedSemaphore # NoSemaphore

\* C9: when the queue submit inside transferData() fails, transferData()
\* returns that failure code, waitSemaphores is empty afterwards and
\* currentTransferCompletedSemaphore has not been set by the call.
C9_FailedSubmit ==
    last.ret = "submitFailure" =>
        /\ Len(last.submits) = 1
        /\ last.submits[1].result # VK_SUCCESS
        /\ last.result = last.submits[1].result
        /\ waitSemaphores = << >>
        /\ currentTransferCompletedSemaphore = last.start.currentTransferCompletedSemaphore

C9_Witness ==
    /\ last.ret = "submitFailure"
    /\ ~StrayFrame
    /\ last.result = VK_ERROR_DEVICE_LOST
    /\ last.start.waitSemaphores # << >>
    /\ last.start.currentTransferCompletedSemaphore = NoSemaphore
    /\ _frames[last.start.frameIndex].transferCompleteSemaphore
           = SemaphoreOf(last.start.frameIndex)


\* Some thread is between the lock and the return of one of the operations.
InCriticalSection(t) == pc[t] \in LockedOperations

\* C10: advance(), both assign() overloads, containsDataToTransfer() and
\* transferData() exclude each other: at most one thread is inside one of
\* them, that thread owns _mutex, and once an operation has returned, by any
\* of its return paths, nobody owns _mutex, so the next caller gets in.
C10_MutualExclusion ==
    ~halted =>
        /\ Cardinality({t \in Threads : InCriticalSection(t)}) <= 1
        /\ _mutex = {t \in Threads : InCriticalSection(t)}
        /\ (\A t \in Threads : ~InCriticalSection(t)) => LockAvailable(_mutex)

\* transferData() has returned by the failed-submit path, and the next caller
\* is already inside transferData() with the mutex.
C10_Witness ==
    /\ ~halted
    /\ last.ret = "submitFailure"
    /\ \E t \in Threads : pc[t] = "transferData" /\ _mutex = {t}


\* C11: in the record phase an entry whose reference count is 1 is removed
\* from the ledger with no copy recorded for it and no syncModifiedCounts()
\* call on it, modified or not; an entry with a higher reference count that
\* was removed was removed for being STATIC, not by this rule.
C11_OnlyReferenceLeft ==
    RecordPhaseReached =>
        /\ \A i \in last.start.bufReclaimable :
              /\ i \notin LedgerBufferInfos(dataMap)
              /\ \A n \in 1..Len(last.regions) : last.regions[n].bufferInfo # i
              /\ i \notin last.bufSynced
        /\ \A j \in last.start.imgReclaimable :
              /\ j \notin imageInfoSet
              /\ \A n \in 1..Len(Uploads(last.commands)) :
                    Uploads(last.commands)[n].imageInfo # j
              /\ j \notin last.imgSynced
        /\ \A i \in LedgerBufferInfos(last.start.dataMap) \ last.start.bufReclaimable :
              i \notin LedgerBufferInfos(dataMap) =>
                  BufferInfoTable[i].dataVariance = STATIC_DATA
        /\ \A j \in last.start.imageInfoSet \ last.start.imgReclaimable :
              j \notin imageInfoSet => ImageInfoTable[j].dataVariance = STATIC_DATA

\* A modified BufferInfo and a modified ImageInfo, each held by the ledger
\* alone, went through the record phase.
C11_Witness ==
    /\ RecordPhaseReached
    /\ ~StrayFrame
    /\ last.start.bufReclaimable \cap last.start.bufModified # {}
    /\ last.start.imgReclaimable \cap last.start.imgModified # {}


\* The regions of the last transferData() call that copy BufferInfo i.
RegionsOf(i) == SelectSeq(last.regions, LAMBDA r : r.bufferInfo = i)

\* The DYNAMIC BufferInfos that were in the ledger, referenced outside it and
\* modified when the last transferData() call started.
DynamicModifiedAtStart ==
    {i \in last.start.bufModified \ last.start.bufReclaimable :
        BufferInfoTable[i].dataVariance = DYNAMIC_DATA}

\* C12: in a frame (advance() then transferData() reaching the record phase)
\* a DYNAMIC BufferInfo that is referenced outside the ledger and was modified
\* before the frame is copied exactly once, stays in the ledger, and the frame
\* slot used is f mod N for frame number f = advanceCalls - 1.
C12_DynamicEveryFrame ==
    (RecordPhaseReached /\ advanceCalls >= 1) =>
        /\ last.start.frameIndex = (advanceCalls - 1) % numBuffers
        /\ \A i \in DynamicModifiedAtStart :
              /\ Len(RegionsOf(i)) = 1
              /\ i \in LedgerBufferInfos(dataMap)
              /\ ~bufModified[i]

\* The ring has wrapped round: the frame reuses the staging buffer of the slot
\* and copies the DYNAMIC BufferInfo again.
C12_Witness ==
    /\ RecordPhaseReached
    /\ numBuffers >= 2
    /\ advanceCalls > numBuffers
    /\ last.start.frameIndex = 0
    /\ last.start.frame.staging # 0
    /\ DynamicModifiedAtStart # {}
    /\ last.ret = "success"


\* The uploads of the last transferData() call that stage ImageInfo j.
UploadsOf(j) == SelectSeq(Uploads(last.commands), LAMBDA c : c.imageInfo = j)

\* C13: a transferData() call that reaches the record phase copies an entry
\* of the ledger if and only if the entry is referenced outside the ledger
\* and its cached modified count was behind its data's count; it copies it
\* once, and an entry that was referenced outside the ledger and is still in
\* it has its cached count level with its data's, so that a later call
\* does not copy it unless the data is modified again.
C13_CopiedIffReferencedAndModified ==
    RecordPhaseReached =>
        /\ \A i \in LedgerBufferInfos(last.start.dataMap) :
              /\ Len(RegionsOf(i)) =
                     (IF i \in last.start.bufModified \ last.start.bufReclaimable THEN 1 ELSE 0)
              /\ (i \in LedgerBufferInfos(dataMap) /\ i \notin last.start.bufReclaimable)
                     => ~bufModified[i]
        /\ \A j \in last.start.imageInfoSet :
              /\ Len(UploadsOf(j)) =
                     (IF j \in last.start.imgModified \ last.start.imgReclaimable THEN 1 ELSE 0)
              /\ (j \in imageInfoSet /\ j \notin last.start.imgReclaimable)
                     => ~imgModified[j]
        /\ \A n \in 1..Len(last.regions) :
              last.regions[n].bufferInfo \in LedgerBufferInfos(last.start.dataMap)
        /\ \A n \in 1..Len(Uploads(last.commands)) :
              Uploads(last.commands)[n].imageInfo \in last.start.imageInfoSet

\* A call that copied nothing although the ledger holds a DYNAMIC BufferInfo
\* referenced outside it: the slot has its staging buffer from an earlier
\* call, the data was not modified again.
C13_Witness ==
    /\ last.ret = "nothingToSubmit"
    /\ ~StrayFrame
    /\ last.start.frame.staging # 0
    /\ last.regions = << >>
    /\ \E i \in LedgerBufferInfos(last.start.dataMap) \ last.start.bufReclaimable :
          /\ BufferInfoTable[i].dataVariance = DYNAMIC_DATA
          /\ i \in LedgerBufferInfos(dataMap)


\* The BufferInfo the ledger dm holds under the key (buffer b, offset o), as
\* a set: empty when there is none.
EntryAt(dm, b, o) == IF b \in DOMAIN dm /\ o \in DOMAIN dm[b] THEN {dm[b][o]} ELSE {}

\* The positions of a list whose BufferInfo has the key (b, o).
PositionsWithKey(bufferInfoList, b, o) ==
    {n \in 1..Len(bufferInfoList) :
        /\ BufferInfoTable[bufferInfoList[n]].buffer = b
        /\ BufferInfoTable[bufferInfoList[n]].offset = o}

Largest(S) == CHOOSE n \in S : \A m \in S : m <= n

\* C14: after each assign(buffers) call, every (buffer, offset) key with a
\* backing buffer that occurs in the list maps to the last BufferInfo of the
\* list with that key, every other key maps to what it mapped to before the
\* call, and no BufferInfo without a backing buffer is in the ledger.
C14_MostRecentAssignWins ==
    /\ \A b \in {BufferInfoTable[i].buffer : i \in BufferInfoIds} \ {0} :
          \A o \in {BufferInfoTable[i].offset : i \in BufferInfoIds} :
              LET ns == PositionsWithKey(assigned.bufferInfoList, b, o)
              IN IF ns # {}
                 THEN EntryAt(dataMap, b, o) = {assigned.bufferInfoList[Largest(ns)]}
                 ELSE EntryAt(dataMap, b, o) = EntryAt(assigned.before, b, o)
    /\ 0 \notin DOMAIN dataMap
    /\ \A i \in LedgerBufferInfos(dataMap) : BufferInfoTable[i].buffer # 0

\* The call assigned a BufferInfo whose key was taken and one without a
\* backing buffer: the first replaced the earlier entry, the entry under the
\* other key stayed, the second is not in the ledger.
C14_Witness ==
    /\ Len(assigned.bufferInfoList) = 2
    /\ \E n \in 1..2 : BufferInfoTable[assigned.bufferInfoList[n]].buffer = 0
    /\ \E n \in 1..2 :
          LET i == assigned.bufferInfoList[n]
              b == BufferInfoTable[i].buffer
              o == BufferInfoTable[i].offset
          IN /\ b # 0
             /\ EntryAt(assigned.before, b, o) # {}
             /\ EntryAt(assigned.before, b, o) # {i}
             /\ EntryAt(dataMap, b, o) = {i}
    /\ Cardinality(LedgerBufferInfos(dataMap)) >= 2


\* The positions of the last call's events that are the command cmd.
EventsAt(cmd) == {n \in 1..Len(last.events) : last.events[n].cmd = cmd}

\* C15: in a transferData() call that reaches the record phase the command
\* buffer is begun once and ended once, every vkCmdCopyBuffer and every image
\* upload is recorded between the two, every vkCmdCopyBuffer before every
\* image upload, and the submit, if there is one, comes after the end.
C15_BuffersBeforeImages ==
    RecordPhaseReached =>
        /\ EventsAt("vkBeginCommandBuffer") = {1}
        /\ Cardinality(EventsAt("vkEndCommandBuffer")) = 1
        /\ \A n \in EventsAt("vkCmdCopyBuffer") \cup EventsAt("transferImageData") :
              \A end \in EventsAt("vkEndCommandBuffer") : 1 < n /\ n < end
        /\ \A c \in EventsAt("vkCmdCopyBuffer") : \A u \in EventsAt("transferImageData") : c < u
        /\ \A q \in EventsAt("submit") : \A end \in EventsAt("vkEndCommandBuffer") : end < q
        /\ Cardinality(EventsAt("submit")) = Len(last.submits)
        /\ Cardinality(EventsAt("vkCmdCopyBuffer")) + Cardinality(EventsAt("transferImageData"))
               = Len(last.commands)

\* A call that recorded a buffer copy and an image upload and submitted them.
C15_Witness ==
    /\ RecordPhaseReached
    /\ ~StrayFrame
    /\ EventsAt("vkCmdCopyBuffer") # {}
    /\ EventsAt("transferImageData") # {}
    /\ EventsAt("submit") # {}


\* The staging offset after the n-th image upload of the last call: where the
\* next upload starts, or the offset the call ended with.
OffsetAfterUpload(n) ==
    IF n < Len(Uploads(last.commands))
    THEN Uploads(last.commands)[n + 1].source_offset
    ELSE last.offset

\* Source and target format of ImageInfo j have the same per-texel size.
SameTexelSize(j) ==
    FormatSize(ImageInfoTable[j].sourceFormat) = FormatSize(ImageInfoTable[j].targetFormat)

\* C16: each image upload moves the staging offset on by data.dataSize when
\* the source and target formats are the same or of the same per-texel size,
\* and by targetTraits.size * valueCount when the sizes differ; in that case
\* transferImageData gets format = target format and stride =
\* targetTraits.size; width, height, depth and mipmap offsets are the data's.
C16_ImageOffsetAndProperties ==
    RecordPhaseReached =>
        \A n \in 1..Len(Uploads(last.commands)) :
            LET u == Uploads(last.commands)[n]
                t == ImageInfoTable[u.imageInfo]
            IN /\ u.extent = DataExtent(u.imageInfo)
               /\ IF SameTexelSize(u.imageInfo)
                  THEN /\ OffsetAfterUpload(n) - u.source_offset = DataSize(u.imageInfo)
                       /\ u.format = t.sourceFormat
                       /\ u.stride = FormatSize(t.sourceFormat)
                  ELSE /\ OffsetAfterUpload(n) - u.source_offset
                              = FormatSize(t.targetFormat) * t.valueCount
                       /\ u.format = t.targetFormat
                       /\ u.stride = FormatSize(t.targetFormat)

\* An image whose source format is wider than its target's and an image of
\* another format of equal size were both uploaded in one call.
C16_Witness ==
    /\ RecordPhaseReached
    /\ ~StrayFrame
    /\ Len(Uploads(last.commands)) = 2
    /\ ~SameTexelSize(Uploads(last.commands)[1].imageInfo)
    /\ SameTexelSize(Uploads(last.commands)[2].imageInfo)
    /\ Uploads(last.commands)[2].format # ImageInfoTable[Uploads(last.commands)[2].imageInfo].targetFormat


\* The image looked at has a target texel larger than its source texel.
Expanded ==
    FormatSize(ImageInfoTable[image.imageInfo].sourceFormat)
        < FormatSize(ImageInfoTable[image.imageInfo].targetFormat)

\* Byte s (from 0) of staged texel t (from 0) of the image looked at.
StagedByte(t, s) ==
    staged.bytes[t * FormatSize(ImageInfoTable[image.imageInfo].targetFormat) + s + 1]

\* C17: when an image is expanded, every staged target texel is the source
\* texel's bytesFromSource bytes followed by padding whose byte at texel
\* position j (bytesFromSource <= j < bytesToTarget) is defaultValue[j].
C17_PaddingFromDefaultValue ==
    (staged.done /\ Expanded) =>
        LET bytesFromSource == FormatSize(ImageInfoTable[image.imageInfo].sourceFormat)
            bytesToTarget == FormatSize(ImageInfoTable[image.imageInfo].targetFormat)
        IN /\ Len(staged.bytes) = bytesToTarget * ImageInfoTable[image.imageInfo].valueCount
           /\ \A t \in 0..(ImageInfoTable[image.imageInfo].valueCount - 1) :
                 /\ \A s \in 0..(bytesFromSource - 1) : StagedByte(t, s) = DataByte(t, s)
                 /\ \A j \in bytesFromSource..(bytesToTarget - 1) :
                       StagedByte(t, j) = image.defaultValue[j]


\* An intersector call was the last operation and no popTransform() has been
\* called without an outstanding pushTransform().
Balanced == ~halted /\ ~lastIntersector.stray

\* C18 as claimed: at every quiescent point of an intersector used with
\* matching pushes and pops, the polytope stack, the local-to-world stack and
\* the world-to-local stack have the same depth.
C18_StackDepthsEqual ==
    Balanced =>
        /\ Len(_polytopeStack) = Len(localToWorldStack)
        /\ Len(localToWorldStack) = Len(worldToLocalStack)

\* C18 as amended: the local-to-world and world-to-local stacks have one entry
\* per outstanding pushTransform(), and the polytope stack has one more, the
\* base polytope.
C18_PolytopeStackOneDeeper ==
    Balanced =>
        /\ Len(localToWorldStack) = lastIntersector.outstanding
        /\ Len(worldToLocalStack) = lastIntersector.outstanding
        /\ Len(_polytopeStack) = lastIntersector.outstanding + 1

\* Two pushTransform() calls are outstanding, after an earlier pop.
C18_Witness ==
    /\ Balanced
    /\ lastIntersector.op = "pushTransform"
    /\ lastIntersector.outstanding = 2
    /\ Len(_polytopeStack) = 3
    /\ localToWorldStack[1] # localToWorldStack[2]
    /\ _polytopeStack[3] # _polytopeStack[1]

\* C19: popTransform() with no pushTransform() outstanding is rejected and
\* leaves the three stacks as they were, the base polytope included.
C19_StrayPopRejected ==
    (lastIntersector.op = "popTransform" /\ lastIntersector.before.localToWorld = << >>
         /\ Len(lastIntersector.before.polytope) = 1) =>
        /\ lastIntersector.ret = "rejected"
        /\ Stacks = lastIntersector.before
        /\ _polytopeStack # << >>

\* The last call was a draw test of a triangle list that ran to its return
\* statement reading only elements of its arrays.
TrianglesWereTested ==
    /\ lastIntersector.op \in {"intersectDraw", "intersectDrawIndexed"}
    /\ lastIntersector.topology = "TRIANGLE_LIST"
    /\ lastIntersector.count >= 3
    /\ lastIntersector.ret = "returned"
    /\ ~lastIntersector.undefined

\* C20: when some tested triangle has a vertex inside the top-of-stack
\* polytope, intersectDraw / intersectDrawIndexed returns true and the
\* intersections list grows; when none has, it returns false and the list
\* is unchanged.
C20_VertexInsideIsHit ==
    TrianglesWereTested =>
        IF lastIntersector.inside
        THEN /\ lastIntersector.result
             /\ Len(intersections) > lastIntersector.previous_size
        ELSE /\ ~lastIntersector.result
             /\ Len(intersections) = lastIntersector.previous_size


\* The points of NDC space with coordinates -1, -0.5, 0, 0.5, 1, in halves.
NdcPoints == {Vec3(x, y, z) : x \in -2..2, y \in -2..2, z \in -2..2}

\* v is in the box the NDC values describe, depth between near and far.
InNdcBox(ndc, v) ==
    /\ ndc.xMin <= v.x /\ v.x <= ndc.xMax
    /\ ndc.yMin <= v.y /\ v.y <= ndc.yMax
    /\ \/ ndc.near <= v.z /\ v.z <= ndc.far
       \/ ndc.far <= v.z /\ v.z <= ndc.near

\* C21: the six clip-space half-spaces built by the camera constructor hold
\* exactly the points of the box ndc_xMin <= x <= ndc_xMax,
\* ndc_yMin <= y <= ndc_yMax with depth between ndc_near and ndc_far, with
\* and without reverse-Z; for the 800 x 600 viewport and the sub-rectangle
\* (400, 300)-(800, 600), (0.5, 0.5, 0.5) is inside and (-0.5, 0, 0.5) is not.
C21_ClipspaceIsNdcBox ==
    lastIntersector.op = "PolytopeIntersector" =>
        /\ Len(lastIntersector.clipspace) = 6
        /\ \A v \in NdcPoints :
              InsideSpace(lastIntersector.clipspace, v) <=> InNdcBox(lastIntersector.ndc, v)
        /\ (/\ camera.viewport.width = 800
            /\ camera.rectangle = [xMin |-> 400, yMin |-> 300, xMax |-> 800, yMax |-> 600]) =>
               /\ InsideSpace(lastIntersector.clipspace, Vec3(1, 1, 1))
               /\ ~InsideSpace(lastIntersector.clipspace, Vec3(-1, 0, 1))


\* The polytope pushed by the most recent pushTransform() that has had no
\* popTransform(), or the base polytope when there is none.
CurrentPolytope ==
    IF lastIntersector.unmatched = << >> THEN lastIntersector.before.polytope[1]
    ELSE lastIntersector.unmatched[Len(lastIntersector.unmatched)]

\* The sphere lies entirely outside the polytope: its centre is further than
\* its radius on the outer side of some plane.
EntirelyOutside(polytope, bs) ==
    \E k \in 1..Len(polytope) : polytope[k].n * bs.center + polytope[k].d < 0 - bs.radius

\* C22: intersects(sphere) returns false for an invalid sphere and for every
\* valid sphere entirely outside the current polytope; the polytope it
\* consults is the one pushed by the most recent unmatched pushTransform(),
\* or the base polytope when none is outstanding; it changes no stack.
C22_IntersectsSphere ==
    (lastIntersector.op = "intersects" /\ lastIntersector.ret = "returned") =>
        /\ Stacks = lastIntersector.before
        /\ ~SphereValid(lastIntersector.bs) => ~lastIntersector.result
        /\ (Balanced /\ SphereValid(lastIntersector.bs)) =>
              /\ lastIntersector.consulted = <<CurrentPolytope>>
              /\ EntirelyOutside(CurrentPolytope, lastIntersector.bs) =>
                     ~lastIntersector.result

\* A valid sphere that touches the base polytope and lies outside the
\* polytope of the second of two outstanding pushTransform() calls.
C22_Witness ==
    /\ lastIntersector.op = "intersects"
    /\ Balanced
    /\ lastIntersector.outstanding = 2
    /\ SphereValid(lastIntersector.bs)
    /\ IntersectSphere(_polytopeStack[1], lastIntersector.bs)
    /\ EntirelyOutside(CurrentPolytope, lastIntersector.bs)
    /\ ~lastIntersector.result


\* The last transferData() call got as far as deciding whether to submit.
ReachedSubmitDecision == last.ret \in {"success", "submitFailure", "nothingToSubmit"}

\* C23: a transferData() call that submits passes all pending wait semaphores
\* in that one submit's wait list, and after any call that reaches the submit
\* decision waitSemaphores is empty, so that no semaphore placed there is
\* passed to a second submit.
C23_WaitSemaphoresConsumed ==
    ReachedSubmitDecision =>
        /\ waitSemaphores = << >>
        /\ IF last.ret = "nothingToSubmit" THEN last.submits = << >>
           ELSE /\ Len(last.submits) = 1
                /\ last.submits[1].waitSemaphores = last.start.waitSemaphores

\* A submit that failed had a wait semaphore in its wait list.
C23_Witness ==
    /\ last.ret = "submitFailure"
    /\ ~last.outOfBounds
    /\ last.start.waitSemaphores # << >>
    /\ last.submits[1].waitSemaphores = last.start.waitSemaphores
    /\ waitSemaphores = << >>


\* C24: after every transferData() call of a frame, with
\* currentTransferCompletedSemaphore unset or a slot's completion semaphore
\* before it, currentTransferCompletedSemaphore is
\* either unset or the completion semaphore of slot index(0), signalled by a
\* submit made in that same call: never one signalled by an earlier frame's
\* submit.
C24_SemaphoreOfSameCall ==
    (/\ last.ret \notin {"none", "crash"}
     /\ index(0) < numBuffers
     /\ last.start.currentTransferCompletedSemaphore
            \in {NoSemaphore} \cup {SemaphoreOf(k) : k \in 0..(numBuffers - 1)}) =>
        \/ currentTransferCompletedSemaphore = NoSemaphore
        \/ /\ currentTransferCompletedSemaphore = SemaphoreOf(index(0))
           /\ last.ret = "success"
           /\ Len(last.submits) = 1
           /\ last.submits[1].signalSemaphores = <<currentTransferCompletedSemaphore>>


\* The last transferData() call got as far as the staging buffer of a slot
\* of the ring.
ReachedAllocation ==
    /\ last.ret \in {"mapFailure", "success", "submitFailure", "nothingToSubmit"}
    /\ ~last.outOfBounds

RequiredTotal == last.start.dataTotalSize + last.start.imageTotalSize

Larger(a, b) == IF a > b THEN a ELSE b

\* The slot's staging buffer after the call is a new one of size
\* max(total, minimumStagingBufferSize) when it had none or a smaller one
\* than the total, and the one it had otherwise.
StagingReplacedWhenTooSmall ==
    ReachedAllocation =>
        LET old == last.start.frame.staging
            new == _frames[last.start.frameIndex].staging
        IN /\ new = last.stagingSize
           /\ IF old = 0 \/ old < RequiredTotal
              THEN new = Larger(RequiredTotal, minimumStagingBufferSize) /\ new > old
              ELSE new = old

\* No step makes a slot's staging buffer smaller, and none touches the
\* staging buffer of a slot other than index(0).
StagingOnlyGrows ==
    \A k \in 0..(numBuffers - 1) :
        /\ _frames'[k].staging >= _frames[k].staging
        /\ k # index(0) => _frames'[k].staging = _frames[k].staging

\* C25: transferData() replaces the current slot's staging buffer exactly
\* when the slot has none or one smaller than dataTotalSize + imageTotalSize,
\* by one of size max(total, minimumStagingBufferSize); no slot's staging
\* size ever decreases and the other slots' staging buffers are untouched.
C25_StagingGrowsOnDemand ==
    []StagingReplacedWhenTooSmall /\ [][StagingOnlyGrows]_vars

\* With two slots that both have a staging buffer, the current slot's buffer
\* of the minimum size was replaced by a larger one.
C25_Witness ==
    /\ ReachedAllocation
    /\ numBuffers = 2
    /\ \A k \in 0..1 : _frames[k].staging > 0
    /\ last.start.frame.staging = minimumStagingBufferSize
    /\ _frames[last.start.frameIndex].staging = RequiredTotal
    /\ RequiredTotal > minimumStagingBufferSize


\* C26: in every reachable state a slot that holds a staging buffer also
\* holds a mapped pointer to it, and no transferData() call copies data
\* through a null pointer, in particular not after a mapping failure on the
\* same slot.
C26_StagingIsMapped ==
    /\ \A k \in 0..(numBuffers - 1) :
          _frames[k].staging > 0 => _frames[k].buffer_data = "mapped"
    /\ last.ret # "none" => ~last.nullWrite


\* What a transferData() call made now would copy.
WouldCopy ==
    LET buffers == TransferBufferInfoRegions(DataMapEntries(dataMap), 0, << >>)
        uploads == TransferImageInfoUploads(ImageInfoEntries(imageInfoSet), buffers.offset, << >>)
    IN [bufferInfos |-> {buffers.regions[n].bufferInfo : n \in 1..Len(buffers.regions)},
        imageInfos |-> {uploads.uploads[n].imageInfo : n \in 1..Len(uploads.uploads)}]

\* C27: a failed transferData() does not roll back the ledger. After a failed
\* submit the STATIC entries the call handled are gone from the ledger and
\* every entry left has its cached modified count synced, so a following
\* transferData() copies none of that data again; after a staging mapping
\* failure no ledger entry and no cached modified count has changed.
C27_NoRollback ==
    /\ last.ret = "submitFailure" =>
          /\ \A i \in LedgerBufferInfos(last.start.dataMap) :
                BufferInfoTable[i].dataVariance = STATIC_DATA =>
                    i \notin LedgerBufferInfos(dataMap)
          /\ \A j \in last.start.imageInfoSet :
                ImageInfoTable[j].dataVariance = STATIC_DATA => j \notin imageInfoSet
          /\ \A i \in LedgerBufferInfos(dataMap) : ~bufModified[i]
          /\ \A j \in imageInfoSet : ~imgModified[j]
          /\ WouldCopy = [bufferInfos |-> {}, imageInfos |-> {}]
    /\ last.ret = "mapFailure" =>
          /\ dataMap = last.start.dataMap
          /\ imageInfoSet = last.start.imageInfoSet
          /\ {i \in LedgerBufferInfos(dataMap) : bufModified[i]} = last.start.bufModified
          /\ {j \in imageInfoSet : imgModified[j]} = last.start.imgModified

\* A failed submit whose call copied a modified STATIC BufferInfo and a
\* modified DYNAMIC one: the first is gone, the second is left, synced.
C27_Witness ==
    /\ last.ret = "submitFailure"
    /\ ~last.outOfBounds
    /\ \E i \in last.start.bufModified :
          /\ BufferInfoTable[i].dataVariance = STATIC_DATA
          /\ \E n \in 1..Len(last.regions) : last.regions[n].bufferInfo = i
          /\ i \notin LedgerBufferInfos(dataMap)
    /\ \E i \in last.start.bufModified :
          /\ BufferInfoTable[i].dataVariance = DYNAMIC_DATA
          /\ i \in LedgerBufferInfos(dataMap)
          /\ ~bufModified[i]


\* A thread is in assign(dynamicData) with the dynamicData's BufferInfos
\* assigned and its ImageInfos not yet.
HalfAssigned(u) == pc[u] = "assignDynamicData"

\* C28: assign(dynamicData) is atomic with respect to the other locked
\* operations: no transferData() or containsDataToTransfer() runs on another
\* thread between the assignment of the dynamicData's buffers and that of
\* its images.
C28_AssignDynamicDataAtomic ==
    \A t \in Threads :
        pc[t] \in {"transferData", "containsDataToTransfer"} =>
            \A u \in Threads \ {t} : ~HalfAssigned(u)


\* The vkCmdCopyBuffer commands the last transferData() call recorded.
CopyCommands == SelectSeq(last.commands, LAMBDA c : c.cmd = "vkCmdCopyBuffer")

\* The destination buffers that have a copied entry in the last call.
BuffersCopiedTo == {last.regions[n].buffer : n \in 1..Len(last.regions)}

\* C29: the copied buffer entries are packed back to back in staging: the
\* first region has srcOffset 0, each later one starts at the previous
\* srcOffset plus the previous range aligned up to 4, dstOffset is the
\* BufferInfo's offset and size its range, so the source ranges do not
\* overlap; there is exactly one vkCmdCopyBuffer per destination buffer with
\* a copied entry, carrying that buffer's regions in increasing destination
\* offset, and none for a buffer without a copied entry.
C29_RegionsPackedPerBuffer ==
    (last.ret \in {"success", "submitFailure", "nothingToSubmit"}) =>
        /\ last.regions # << >> => last.regions[1].srcOffset = 0
        /\ \A n \in 2..Len(last.regions) :
              last.regions[n].srcOffset =
                  last.regions[n - 1].srcOffset + AlignUp(last.regions[n - 1].size)
        /\ \A n \in 1..Len(last.regions) :
              /\ last.regions[n].dstOffset = BufferInfoTable[last.regions[n].bufferInfo].offset
              /\ last.regions[n].size = BufferInfoTable[last.regions[n].bufferInfo].range
              /\ last.regions[n].buffer = BufferInfoTable[last.regions[n].bufferInfo].buffer
        /\ \A m, n \in 1..Len(last.regions) :
              m < n => last.regions[m].srcOffset + last.regions[m].size
                           <= last.regions[n].srcOffset
        /\ \A b \in BuffersCopiedTo :
              Len(SelectSeq(CopyCommands, LAMBDA c : c.dstBuffer = b)) = 1
        /\ \A n \in 1..Len(CopyCommands) :
              LET c == CopyCommands[n]
              IN /\ c.dstBuffer \in BuffersCopiedTo
                 /\ c.regions = SelectSeq(last.regions, LAMBDA r : r.buffer = c.dstBuffer)
                 /\ \A k \in 2..Len(c.regions) :
                       c.regions[k - 1].dstOffset < c.regions[k].dstOffset

\* One vkCmdCopyBuffer with two regions, the second starting at the first
\* one's range aligned up.
C29_Witness ==
    /\ last.ret = "success"
    /\ ~last.outOfBounds
    /\ Len(CopyCommands) = 1
    /\ Len(last.regions) = 2
    /\ last.regions[1].size % alignment # 0
    /\ last.regions[2].srcOffset = AlignUp(last.regions[1].size)
    /\ Cardinality(LedgerBufferInfos(last.start.dataMap)) = 2


AllButLast(stack) == SubSeq(stack, 1, Len(stack) - 1)

\* After a pushTransform() every stack is what it was with one entry on top:
\* the base polytope with each plane taken through the accumulated
\* local-to-world matrix, that matrix, and its inverse. After the matching
\* popTransform() the stacks are what that pushTransform() found.
PushPopLifo ==
    Balanced =>
        /\ lastIntersector.op = "pushTransform" =>
              LET accumulated == localToWorldStack[Len(localToWorldStack)]
                  base == lastIntersector.before.polytope[1]
              IN /\ AllButLast(_polytopeStack) = lastIntersector.before.polytope
                 /\ AllButLast(localToWorldStack) = lastIntersector.before.localToWorld
                 /\ AllButLast(worldToLocalStack) = lastIntersector.before.worldToLocal
                 /\ _polytopeStack[Len(_polytopeStack)] =
                        [k \in 1..Len(base) |->
                            [n |-> base[k].n, d |-> base[k].n * accumulated.translate + base[k].d]]
                 /\ worldToLocalStack[Len(worldToLocalStack)].translate
                        = 0 - accumulated.translate
        /\ lastIntersector.op = "popTransform" =>
              /\ Stacks = lastIntersector.matched[1]
              /\ Stacks = [polytope |-> AllButLast(lastIntersector.before.polytope),
                           localToWorld |-> AllButLast(lastIntersector.before.localToWorld),
                           worldToLocal |-> AllButLast(lastIntersector.before.worldToLocal)]

\* No step of an intersector used with matching pushes and pops changes
\* entry [0] of the polytope stack.
BasePolytopeKept == Balanced' => _polytopeStack'[1] = _polytopeStack[1]

\* C30: pushTransform() pushes the base polytope (entry [0]) transformed by
\* the accumulated local-to-world matrix and modifies no existing entry, and
\* at every nesting depth a pushTransform() followed by its matching
\* popTransform() restores the three stacks to their previous contents.
C30_PushPopRestores ==
    []PushPopLifo /\ [][BasePolytopeKept]_vars

\* The popTransform() matching the second of two nested pushTransform()
\* calls has put the stacks back: the first one's polytope is on top again.
C30_Witness ==
    /\ Balanced
    /\ lastIntersector.op = "popTransform"
    /\ lastIntersector.outstanding = 1
    /\ Len(lastIntersector.before.polytope) = 3
    /\ Stacks = lastIntersector.matched[1]
    /\ Len(_polytopeStack) = 2
    /\ _polytopeStack[2] # _polytopeStack[1]
    /\ lastIntersector.before.polytope[3] # _polytopeStack[2]

\* C31: intersectDraw reads only vertices with index in
\* [firstVertex, firstVertex + vertexCount), and intersectDrawIndexed reads
\* only index-array positions in [firstIndex, firstIndex + indexCount), for
\* every first value, divisible by 3 or not, and every count of 3 or more.
C31_ReadsInsideDrawRange ==
    TrianglesWereTested =>
        \A position \in lastIntersector.positions :
            /\ lastIntersector.first <= position
            /\ position < lastIntersector.first + lastIntersector.count

====
